---- MODULE Spec2Model ----
(***************************************************************************)
(* Krishi-Sahayak AI (src/app.py): the farmer profile store, the           *)
(* interaction log, the advice classification of process_farmer_request    *)
(* and the profile part of the Streamlit session of main().                *)
(*                                                                         *)
(* Text is a sequence of symbols.  A symbol stands for one character       *)
(* (" ", "a", "A", "N", "0", "1", ".") or for one whole word of a fixed    *)
(* string of the program ("English", "Unknown", "Error", ...).  Floats     *)
(* are modelled by integers; the value 1 stands for 1.0.                   *)
(***************************************************************************)
EXTENDS Integers, Sequences, FiniteSets, TLC

VARIABLES
    df,        \* store harness: the in-memory collection (a pandas DataFrame)
    disk,      \* farmer_profiles.csv
    last,      \* store harness: the last store call and its argument
    ss,        \* st.session_state of main()
    ui,        \* what the last script run of main() showed and did
    qa_log,    \* qa_log.csv
    req,       \* the last process_farmer_request call and its result
    wx,        \* the last get_weather_forecast call, its result and the HTTP requests made
    hist,      \* the last get_recent_qa_history call and its result
    writers    \* two sessions that save the profile table: where each is, and its table

vars == <<df, disk, last, ss, ui, qa_log, req, wx, hist, writers>>

(***************************************************************************)
(* Bounds of the model.                                                    *)
(***************************************************************************)
MaxRows == 2          \* rows a collection may hold before an append is refused
MaxLog == 2           \* rows of qa_log.csv
MaxSamples == 2       \* entries of a forecast list, the longer lists apart
MaxHist == 3          \* rows of a log whose history is read

(***************************************************************************)
(* Program constants.                                                      *)
(***************************************************************************)
PROFILE_DEFAULT_LAT == 0
PROFILE_DEFAULT_LON == 0
DEFAULT_FARM_SIZE == 1

DefaultLanguage == <<"English">>
DefaultSoil == <<"Unknown">>

(***************************************************************************)
(* Python and pandas values.                                               *)
(***************************************************************************)
PyNone == [k |-> "none"]
NaN == [k |-> "nan"]
Num(n) == [k |-> "num", v |-> n]
Str(s) == [k |-> "str", v |-> s]

\* str.strip(): leading and trailing blanks removed
RECURSIVE LStrip(_)
LStrip(s) == IF s # <<>> /\ Head(s) = " " THEN LStrip(Tail(s)) ELSE s

RECURSIVE RStrip(_)
RStrip(s) ==
    IF s # <<>> /\ s[Len(s)] = " " THEN RStrip(SubSeq(s, 1, Len(s) - 1)) ELSE s

Strip(s) == RStrip(LStrip(s))

\* str.lower()
LowerSym(c) ==
    CASE c = "A" -> "a"
      [] c = "N" -> "n"
      [] c = "B" -> "b"
      [] c = "English" -> "english"
      [] c = "Hindi" -> "hindi"
      [] c = "Weather" -> "weather"
      [] c = "Quota" -> "quota"
      [] OTHER -> c

Lower(s) == [i \in DOMAIN s |-> LowerSym(s[i])]

\* code point order of the symbols, as Python compares strings
Code(c) ==
    CASE c = " " -> 32
      [] c = "." -> 46
      [] c = "0" -> 48
      [] c = "1" -> 49
      [] c = "A" -> 65
      [] c = "B" -> 66
      [] c = "N" -> 78
      [] c = "a" -> 97
      [] c = "b" -> 98
      [] c = "n" -> 110
      [] OTHER -> 120

RECURSIVE StrLess(_, _)
StrLess(s, t) ==
    IF t = <<>> THEN FALSE
    ELSE IF s = <<>> THEN TRUE
    ELSE IF Code(Head(s)) # Code(Head(t)) THEN Code(Head(s)) < Code(Head(t))
    ELSE StrLess(Tail(s), Tail(t))

Digits == {"0", "1"}

IsInt(s) == s # <<>> /\ \A i \in DOMAIN s : s[i] \in Digits

IsFloat(s) ==
    /\ Len(s) >= 3
    /\ s[Len(s) - 1] = "."
    /\ s[Len(s)] = "0"
    /\ IsInt(SubSeq(s, 1, Len(s) - 2))

RECURSIVE DropZeros(_)
DropZeros(s) == IF Len(s) > 1 /\ Head(s) = "0" THEN DropZeros(Tail(s)) ELSE s

\* str(int(s)) of a text of digits
IntStr(s) == DropZeros(s)

\* str(float(s)) of a text that parses as an integer or as <digits>.0
FloatStr(s) ==
    IF IsInt(s) THEN IntStr(s) \o <<".", "0">>
    ELSE IntStr(SubSeq(s, 1, Len(s) - 2)) \o <<".", "0">>

RECURSIVE DigitsVal(_)
DigitsVal(s) ==
    IF s = <<>> THEN 0
    ELSE 10 * DigitsVal(SubSeq(s, 1, Len(s) - 1))
         + (IF s[Len(s)] = "1" THEN 1 ELSE 0)

\* pd.to_numeric(value, errors='coerce') of a scalar
to_numeric(value) ==
    CASE value.k = "num" -> value
      [] value.k = "str" ->
            IF IsInt(Strip(value.v)) THEN Num(DigitsVal(Strip(value.v))) ELSE NaN
      [] OTHER -> NaN

\* the texts pandas.read_csv takes for a missing value (those the symbols spell)
NaValues == {<<>>, <<"N", "A">>}

(***************************************************************************)
(* pandas.read_csv of one text column: missing values become NaN, and a    *)
(* column whose present cells all parse as numbers is read as int64        *)
(* (float64 when a cell is missing or a cell is a float).  The result is   *)
(* the column after .fillna(default).astype(str).                          *)
(***************************************************************************)
ReadTextColumn(col, default) ==
    LET idx == DOMAIN col
        present == {i \in idx : col[i] \notin NaValues}
        numeric == present # {} /\ \A i \in present : IsInt(col[i]) \/ IsFloat(col[i])
        asInt == present = idx /\ \A i \in idx : IsInt(col[i])
    IN [i \in idx |->
            IF i \notin present THEN default
            ELSE IF ~numeric THEN col[i]
            ELSE IF asInt THEN IntStr(col[i])
            ELSE FloatStr(col[i])]

(***************************************************************************)
(* Profile Store.  A row is a record over CSV_COLUMNS; a collection is a   *)
(* sequence of rows; the file is [exists, malformed, rows].                *)
(***************************************************************************)
CSV_COLUMNS == {"name", "language", "latitude", "longitude", "soil_type", "farm_size_ha"}

NoFile == [exists |-> FALSE, malformed |-> FALSE, rows |-> <<>>]

NotFound == [k |-> "none"]
Found(row) == [k |-> "dict", v |-> row]

RECURSIVE SeqFilter(_, _)
\* the rows of a collection whose index is in keep, in order
SeqFilter(rows, keep) ==
    IF rows = <<>> THEN <<>>
    ELSE LET n == Len(rows)
             front == SeqFilter(SubSeq(rows, 1, n - 1), keep)
         IN IF n \in keep THEN Append(front, rows[n]) ELSE front

\* df.sort_values(by='name', key=lambda col: col.str.lower()): a row goes
\* after the rows whose lower-cased name is not greater
RECURSIVE SortByLowerName(_)
SortByLowerName(rows) ==
    IF rows = <<>> THEN <<>>
    ELSE LET n == Len(rows)
             front == SortByLowerName(SubSeq(rows, 1, n - 1))
             r == rows[n]
             before == {i \in DOMAIN front :
                          ~StrLess(Lower(r.name), Lower(front[i].name))}
             k == Cardinality(before)
         IN SubSeq(front, 1, k) \o <<r>> \o SubSeq(front, k + 1, Len(front))

load_or_create_farmer_db(file) ==
    IF ~file.exists THEN <<>>
    ELSE IF file.malformed THEN <<>>
    ELSE LET rows == file.rows
             names == ReadTextColumn([i \in DOMAIN rows |-> rows[i].name], <<>>)
             langs == ReadTextColumn([i \in DOMAIN rows |-> rows[i].language],
                                     DefaultLanguage)
             soils == ReadTextColumn([i \in DOMAIN rows |-> rows[i].soil_type],
                                     DefaultSoil)
             read == [i \in DOMAIN rows |->
                        [name |-> names[i], language |-> langs[i],
                         latitude |-> rows[i].latitude,
                         longitude |-> rows[i].longitude,
                         soil_type |-> soils[i],
                         farm_size_ha |-> rows[i].farm_size_ha]]
         IN SeqFilter(read, {i \in DOMAIN read : read[i].name # <<>>})

\* the name as given, not stripped
profile_name_raw(profile_data) ==
    IF profile_data.name.k = "str" THEN profile_data.name.v ELSE <<>>

\* str(profile_data.get('name', '')).strip()
profile_name_clean(profile_data) ==
    IF profile_data.name.k = "str" THEN Strip(profile_data.name.v) ELSE <<>>

\* a comparison that tells letter cases apart
existing_indices_exact(rows, name_lower) ==
    {i \in DOMAIN rows : rows[i].name = name_lower}

\* df.index[df['name'].fillna('').str.lower() == name_lower]
existing_indices(rows, name_lower) ==
    {i \in DOMAIN rows : Lower(rows[i].name) = name_lower}

\* the latitude / longitude branch of add_or_update_farmer
CoerceCoord(value, default_val) ==
    IF value.k = "num" THEN value.v
    ELSE LET num_val == to_numeric(value)
         IN IF num_val.k = "nan" THEN default_val ELSE num_val.v

\* a floor that lets zero through
FarmSizeNonNegative(value) ==
    LET num_val == to_numeric(value)
        value_float == IF num_val.k = "nan" THEN DEFAULT_FARM_SIZE ELSE num_val.v
    IN IF value_float >= 0 THEN value_float ELSE DEFAULT_FARM_SIZE

\* the farm_size_ha branch of add_or_update_farmer
CoerceFarmSize(value) ==
    LET num_val == to_numeric(value)
        value_float == IF num_val.k = "nan" THEN DEFAULT_FARM_SIZE ELSE num_val.v
    IN IF value_float > 0 THEN value_float ELSE DEFAULT_FARM_SIZE

\* a text field that takes no default
CleanTextNoDefault(value, default) ==
    IF value.k = "str" THEN Strip(value.v) ELSE <<>>

\* the name / language / soil_type branch of add_or_update_farmer
CleanText(value, default) ==
    LET cleaned_value == IF value.k = "str" THEN Strip(value.v) ELSE <<>>
    IN IF cleaned_value # <<>> THEN cleaned_value ELSE default

new_data(profile_data) ==
    [name |-> CleanText(profile_data.name, profile_name_clean(profile_data)),
     language |-> CleanText(profile_data.language, DefaultLanguage),
     latitude |-> CoerceCoord(profile_data.latitude, PROFILE_DEFAULT_LAT),
     longitude |-> CoerceCoord(profile_data.longitude, PROFILE_DEFAULT_LON),
     soil_type |-> CleanText(profile_data.soil_type, DefaultSoil),
     farm_size_ha |-> CoerceFarmSize(profile_data.farm_size_ha)]

MinOf(S) == CHOOSE i \in S : \A j \in S : i <= j

add_or_update_farmer(rows, profile_data) ==
    IF profile_name_clean(profile_data) = <<>> THEN rows
    ELSE IF new_data(profile_data).name = <<>> THEN rows
    ELSE LET name_lower == Lower(profile_name_clean(profile_data))
             found == existing_indices(rows, name_lower)
         IN IF found # {}
            THEN [rows EXCEPT ![MinOf(found)] = new_data(profile_data)]
            ELSE Append(rows, new_data(profile_data))

\* written says whether to_csv succeeded; a failed write leaves the file as it was
save_farmer_db(rows, file, written) ==
    IF ~written THEN file
    ELSE LET df_to_save == SeqFilter(rows, {i \in DOMAIN rows : rows[i].name # <<>>})
         IN [exists |-> TRUE, malformed |-> FALSE,
             rows |-> SortByLowerName(df_to_save)]

find_farmer(rows, name) ==
    IF rows = <<>> THEN NotFound
    ELSE IF Strip(name) = <<>> THEN NotFound
    ELSE LET match == existing_indices(rows, Lower(Strip(name)))
         IN IF match = {} THEN NotFound
            ELSE LET row == rows[MinOf(match)]
                 IN Found([row EXCEPT
                        !.name = Strip(row.name),
                        !.language = IF Strip(row.language) = <<>>
                                     THEN DefaultLanguage ELSE Strip(row.language),
                        !.soil_type = IF Strip(row.soil_type) = <<>>
                                      THEN DefaultSoil ELSE Strip(row.soil_type)])

(***************************************************************************)
(* The store calls in any order: load_or_create_farmer_db,                 *)
(* add_or_update_farmer, save_farmer_db, from an empty profile table.      *)
(***************************************************************************)
Profile(n, l, la, lo, s, f) ==
    [name |-> n, language |-> l, latitude |-> la, longitude |-> lo,
     soil_type |-> s, farm_size_ha |-> f]

NoProfile == Profile(PyNone, PyNone, PyNone, PyNone, PyNone, PyNone)

\* profile_data arguments: PyNone is a key the dict does not hold
ProfileInputs ==
    { Profile(Str(<<"a">>), PyNone, PyNone, PyNone, PyNone, PyNone),
      Profile(Str(<<"A">>), Str(<<"Hindi">>), Num(5), Num(7), Str(<<"Red">>), Num(2)),
      Profile(Str(<<" ", "a">>), PyNone, Str(<<"x">>), PyNone, Str(<<" ", "Red">>), Num(-5)),
      Profile(Str(<<"1">>), PyNone, Str(<<"1">>), Num(7), PyNone, Num(0)),
      Profile(Str(<<"0", "1">>), Str(<<"Hindi">>), NaN, PyNone, Str(<<"Red">>), Str(<<"x">>)),
      Profile(Str(<<"N", "A">>), PyNone, Num(5), PyNone, Str(<<"N", "A">>), PyNone),
      Profile(PyNone, Str(<<"Hindi">>), Num(5), Num(7), Str(<<"Red">>), Num(2)),
      Profile(Str(<<>>), PyNone, PyNone, PyNone, Str(<<"Red">>), Num(2)),
      Profile(Str(<<" ">>), PyNone, Num(5), PyNone, PyNone, Num(-5)) }

StoreInit ==
    /\ df = <<>>
    /\ disk = NoFile
    /\ last = [op |-> "init", data |-> NoProfile, prev |-> NoProfile,
               written |-> TRUE, trip |-> 0]

\* The harness keeps history only when keep is set: last.prev is the argument
\* of the upsert call made just before an upsert call, and last.trip counts the
\* calls of an upsert, save, load round trip made in a row.
Load(keep) ==
    /\ df' = load_or_create_farmer_db(disk)
    /\ last' = [op |-> "load", data |-> IF keep THEN last.data ELSE NoProfile,
                prev |-> NoProfile, written |-> TRUE,
                trip |-> IF keep /\ last.trip = 2 THEN 3 ELSE 0]
    /\ UNCHANGED <<disk, ss, ui, qa_log, req, wx, hist, writers>>

Upsert(profile_data, keep) ==
    /\ Len(add_or_update_farmer(df, profile_data)) <= MaxRows
    /\ df' = add_or_update_farmer(df, profile_data)
    /\ last' = [op |-> "upsert", data |-> profile_data,
                prev |-> IF keep /\ last.op = "upsert" THEN last.data ELSE NoProfile,
                written |-> TRUE, trip |-> IF keep THEN 1 ELSE 0]
    /\ UNCHANGED <<disk, ss, ui, qa_log, req, wx, hist, writers>>

Save(written, keep) ==
    /\ disk' = save_farmer_db(df, disk, written)
    /\ last' = [op |-> "save", data |-> IF keep THEN last.data ELSE NoProfile,
                prev |-> NoProfile, written |-> written,
                trip |-> IF keep /\ last.trip = 1 /\ written THEN 2 ELSE 0]
    /\ UNCHANGED <<df, ss, ui, qa_log, req, wx, hist, writers>>

\* the file is edited by hand into one read_csv cannot parse
DamageFile ==
    /\ disk.exists /\ ~disk.malformed
    /\ disk' = [disk EXCEPT !.malformed = TRUE]
    /\ last' = [op |-> "damage", data |-> NoProfile, prev |-> NoProfile,
                written |-> TRUE, trip |-> 0]
    /\ UNCHANGED <<df, ss, ui, qa_log, req, wx, hist, writers>>

Idle == [lang |-> DefaultLanguage]

SpecStoreInit ==
    /\ StoreInit
    /\ ss = Idle /\ ui = Idle /\ qa_log = Idle /\ req = Idle /\ wx = Idle /\ hist = Idle /\ writers = Idle

\* the store calls in any order
StoreNext ==
    \/ Load(FALSE)
    \/ \E profile_data \in ProfileInputs : Upsert(profile_data, FALSE)
    \/ \E written \in BOOLEAN : Save(written, FALSE)

SpecStore == SpecStoreInit /\ [][StoreNext]_vars

\* the store calls in any order, and the file damaged by hand
DamageNext ==
    \/ Load(FALSE)
    \/ \E profile_data \in ProfileInputs : Upsert(profile_data, FALSE)
    \/ \E written \in BOOLEAN : Save(written, FALSE)
    \/ DamageFile

SpecDamage == SpecStoreInit /\ [][DamageNext]_vars

\* add_or_update_farmer alone, called again and again from the empty collection
UpsertNext == \E profile_data \in ProfileInputs : Upsert(profile_data, TRUE)

SpecUpsert == SpecStoreInit /\ [][UpsertNext]_vars

\* the store calls in any order, with the round trips followed
TripNext ==
    \/ Load(TRUE)
    \/ \E profile_data \in ProfileInputs : Upsert(profile_data, TRUE)
    \/ \E written \in BOOLEAN : Save(written, TRUE)

SpecTrip == SpecStoreInit /\ [][TripNext]_vars

\* rows a collection handed to save_farmer_db may hold
SaveRows ==
    {[name |-> n, language |-> DefaultLanguage, latitude |-> 0, longitude |-> 0,
      soil_type |-> DefaultSoil, farm_size_ha |-> 1] :
        n \in {<<>>, <<" ">>, <<"a">>, <<"B">>, <<"b", "a">>, <<" ", "a">>}}

Collections(S, n) == UNION {[1..k -> S] : k \in 0..n}

\* save_farmer_db called with any collection
SaveInit ==
    /\ df \in Collections(SaveRows, MaxRows)
    /\ disk = NoFile
    /\ last = [op |-> "init", data |-> NoProfile, prev |-> NoProfile,
               written |-> TRUE, trip |-> 0]
    /\ ss = Idle /\ ui = Idle /\ qa_log = Idle /\ req = Idle /\ wx = Idle /\ hist = Idle /\ writers = Idle

SaveNext ==
    \/ \E written \in BOOLEAN : Save(written, FALSE)
    \/ Load(FALSE)

SpecSave == SaveInit /\ [][SaveNext]_vars

(***************************************************************************)
(* Two sessions that each run load_or_create_farmer_db,                    *)
(* add_or_update_farmer and save_farmer_db on the one file, with no lock.  *)
(* to_csv opens the file for writing, which empties it, and then writes    *)
(* its rows from the start of the file; the two steps of one session may   *)
(* have steps of the other between them.  A row stands for an equal        *)
(* stretch of the file.                                                    *)
(***************************************************************************)
Writers == {1, 2}

Writer(pc, profile_data, updated_db) ==
    [pc |-> pc, profile_data |-> profile_data, updated_db |-> updated_db]

\* the table one session writes
df_sorted(updated_db) == save_farmer_db(updated_db, NoFile, TRUE).rows

\* rows written from the start of a file that holds the rows current
WriteFromStart(own, current) == own \o SubSeq(current, Len(own) + 1, Len(current))

RaceLoad(w) ==
    /\ writers[w].pc = "load"
    /\ writers' = [writers EXCEPT ![w].pc = "upsert",
                                  ![w].updated_db = load_or_create_farmer_db(disk)]
    /\ UNCHANGED <<df, disk, last, ss, ui, qa_log, req, wx, hist>>

RaceUpsert(w) ==
    LET updated_db == add_or_update_farmer(writers[w].updated_db, writers[w].profile_data)
    IN /\ writers[w].pc = "upsert"
       /\ Len(updated_db) <= MaxRows
       /\ writers' = [writers EXCEPT ![w].pc = "open", ![w].updated_db = updated_db]
       /\ UNCHANGED <<df, disk, last, ss, ui, qa_log, req, wx, hist>>

\* to_csv opens the file
RaceOpen(w) ==
    /\ writers[w].pc = "open"
    /\ disk' = [exists |-> TRUE, malformed |-> FALSE, rows |-> <<>>]
    /\ writers' = [writers EXCEPT ![w].pc = "write"]
    /\ UNCHANGED <<df, last, ss, ui, qa_log, req, wx, hist>>

\* to_csv writes and closes; last keeps the table of the session that wrote
RaceWrite(w) ==
    /\ writers[w].pc = "write"
    /\ disk' = [disk EXCEPT
                  !.rows = WriteFromStart(df_sorted(writers[w].updated_db), disk.rows)]
    /\ last' = [op |-> "save", writer |-> w, rows |-> df_sorted(writers[w].updated_db)]
    /\ writers' = [writers EXCEPT ![w].pc = "done"]
    /\ UNCHANGED <<df, ss, ui, qa_log, req, wx, hist>>

\* what the sessions save: a new profile, or new values for the stored one
RaceProfiles ==
    {Profile(Str(<<"b">>), Str(<<"Hindi">>), Num(5), Num(7), Str(<<"Red">>), Num(2)),
     Profile(Str(<<"A">>), Str(<<"Hindi">>), Num(5), Num(7), Str(<<"Red">>), Num(2)),
     Profile(Str(<<"a">>), Str(DefaultLanguage), Num(0), Num(0), Str(<<"Black">>), Num(1))}

\* the file is absent, or holds the profile of farmer a
RaceFiles ==
    {NoFile,
     save_farmer_db(add_or_update_farmer(<<>>,
        Profile(Str(<<"a">>), Str(DefaultLanguage), Num(0), Num(0), Str(DefaultSoil), Num(1))),
        NoFile, TRUE)}

RaceInit ==
    /\ disk \in RaceFiles
    /\ writers \in [Writers -> {Writer("load", profile_data, <<>>) :
                                   profile_data \in RaceProfiles}]
    /\ last = [op |-> "init", writer |-> 0, rows |-> <<>>]
    /\ df = <<>> /\ ss = Idle /\ ui = Idle /\ qa_log = Idle /\ req = Idle /\ wx = Idle
    /\ hist = Idle

RaceNext ==
    \E w \in Writers : RaceLoad(w) \/ RaceUpsert(w) \/ RaceOpen(w) \/ RaceWrite(w)

SpecRace == RaceInit /\ [][RaceNext]_vars

(***************************************************************************)
(* The Streamlit session of main(): one action is one run of the script,   *)
(* started by one widget event.  The session fields that only steer the    *)
(* display (map centre and zoom, map mode, location method, the            *)
(* geolocation flag) are left out.                                         *)
(***************************************************************************)
LanguageOptions == {<<"English">>, <<"Hindi">>}

InitSession ==
    [widget_farmer_name_input |-> <<>>,
     show_new_profile_form |-> FALSE,
     current_farmer_profile |-> PyNone,
     new_profile_coords |-> [lat |-> PROFILE_DEFAULT_LAT, lon |-> PROFILE_DEFAULT_LON],
     params_processed |-> FALSE,
     selected_language |-> DefaultLanguage]

Shown(event, notice) == [event |-> event, notice |-> notice]

\* st.session_state.widget_farmer_name_input.strip()
current_entered_name == Strip(ss.widget_farmer_name_input)

\* form_header_name, and whether the new-profile form is drawn
form_header_name == IF ss.show_new_profile_form THEN current_entered_name ELSE <<>>

FormDrawn == ss.show_new_profile_form /\ form_header_name # <<>>

\* the session after a found profile is made the active one (Load Profile, and
\* New Profile for an existing name)
ProfileLoaded(profile) ==
    [ss EXCEPT
        !.current_farmer_profile = Found(profile),
        !.show_new_profile_form = FALSE,
        !.new_profile_coords = [lat |-> profile.latitude, lon |-> profile.longitude],
        !.selected_language = IF profile.language \in LanguageOptions
                              THEN profile.language ELSE DefaultLanguage,
        !.params_processed = FALSE]

\* the user edits the farmer-name field
EditName(text) ==
    /\ ss' = [ss EXCEPT !.widget_farmer_name_input = text]
    /\ ui' = Shown("edit", "none")
    /\ UNCHANGED <<df, disk, last, qa_log, req, wx, hist, writers>>

\* language_change_callback
ChangeLanguage(lang) ==
    /\ ss' = [ss EXCEPT !.selected_language = lang, !.params_processed = FALSE]
    /\ ui' = Shown("language", "none")
    /\ UNCHANGED <<df, disk, last, qa_log, req, wx, hist, writers>>

\* the Load Profile button
ClickLoad ==
    LET farmer_db == load_or_create_farmer_db(disk)
        profile == find_farmer(farmer_db, current_entered_name)
    IN /\ IF current_entered_name = <<>>
          THEN ss' = ss /\ ui' = Shown("load", "name_missing_error")
          ELSE IF profile.k = "dict"
          THEN ss' = ProfileLoaded(profile.v)
               /\ ui' = Shown("load", "profile_loaded_success")
          ELSE ss' = [ss EXCEPT !.current_farmer_profile = PyNone,
                                !.show_new_profile_form = FALSE]
               /\ ui' = Shown("load", "profile_not_found_warning")
       /\ UNCHANGED <<df, disk, last, qa_log, req, wx, hist, writers>>

\* the New Profile button
ClickNew ==
    LET farmer_db == load_or_create_farmer_db(disk)
        profile == find_farmer(farmer_db, current_entered_name)
    IN /\ IF current_entered_name = <<>>
          THEN ss' = ss /\ ui' = Shown("new", "name_missing_error")
          ELSE IF profile.k = "dict"
          THEN ss' = ProfileLoaded(profile.v)
               /\ ui' = Shown("new", "profile_exists_warning")
          ELSE ss' = [ss EXCEPT
                        !.show_new_profile_form = TRUE,
                        !.current_farmer_profile = PyNone,
                        !.new_profile_coords = [lat |-> PROFILE_DEFAULT_LAT,
                                                lon |-> PROFILE_DEFAULT_LON],
                        !.params_processed = FALSE]
               /\ ui' = Shown("new", "creating_profile_info")
       /\ UNCHANGED <<df, disk, last, qa_log, req, wx, hist, writers>>

\* a click on the map of the drawn form, in pick mode
MapPick(clicked_lat, clicked_lon) ==
    /\ FormDrawn
    /\ ss' = [ss EXCEPT !.new_profile_coords = [lat |-> clicked_lat, lon |-> clicked_lon]]
    /\ ui' = Shown("map", "none")
    /\ UNCHANGED <<df, disk, last, qa_log, req, wx, hist, writers>>

\* The page is opened with lat and lon in the URL (the geolocation button
\* reloads it so).  A reload may start a new session, whose state is the
\* defaults, or reach the one at hand.
GeoRedirect(lat, lon, fresh) ==
    LET base == IF fresh THEN InitSession ELSE ss
    IN /\ ~base.params_processed
       /\ IF to_numeric(lat).k = "num" /\ to_numeric(lon).k = "num"
          THEN /\ ss' = [base EXCEPT
                            !.new_profile_coords = [lat |-> to_numeric(lat).v,
                                                    lon |-> to_numeric(lon).v],
                            !.show_new_profile_form = TRUE,
                            !.params_processed = TRUE]
               /\ ui' = Shown("geo", "geolocation_success_message")
          ELSE /\ ss' = [base EXCEPT !.params_processed = TRUE]
               /\ ui' = Shown("geo", "geolocation_error")
       /\ UNCHANGED <<df, disk, last, qa_log, req, wx, hist, writers>>

\* the Save Profile button of the new-profile form; written says whether the
\* table could be written
SubmitForm(form_new_lang, form_new_soil, form_new_size, written) ==
    LET profile_name_to_save == form_header_name
        new_profile_data ==
            Profile(Str(profile_name_to_save), Str(form_new_lang),
                    Num(ss.new_profile_coords.lat), Num(ss.new_profile_coords.lon),
                    Str(form_new_soil), Num(form_new_size))
        current_db_state == load_or_create_farmer_db(disk)
        updated_db == add_or_update_farmer(current_db_state, new_profile_data)
        saved_profile == find_farmer(updated_db, profile_name_to_save)
    IN /\ FormDrawn
       /\ Len(updated_db) <= MaxRows
       /\ disk' = save_farmer_db(updated_db, disk, written)
       /\ IF saved_profile.k = "dict"
          THEN /\ ss' = [ss EXCEPT
                            !.current_farmer_profile = saved_profile,
                            !.show_new_profile_form = FALSE,
                            !.selected_language = saved_profile.v.language]
               /\ ui' = Shown("submit", "profile_saved_success")
          ELSE /\ ss' = ss
               /\ ui' = Shown("submit", "internal_error")
       /\ UNCHANGED <<df, last, qa_log, req, wx, hist, writers>>

\* what the user may type into the farmer-name field
NameInputs == {<<>>, <<"a">>, <<"A", " ">>, <<"b">>}

SessionInit ==
    /\ ss = InitSession
    /\ ui = Shown("start", "none")
    /\ disk = NoFile
    /\ df = <<>> /\ last = Idle /\ qa_log = Idle /\ req = Idle /\ wx = Idle /\ hist = Idle /\ writers = Idle

SessionNext ==
    \/ \E text \in NameInputs : EditName(text)
    \/ \E lang \in LanguageOptions : ChangeLanguage(lang)
    \/ ClickLoad
    \/ ClickNew
    \/ MapPick(1, 1)
    \/ \E lat \in {Str(<<"1">>), Str(<<"x">>)}, fresh \in BOOLEAN :
            GeoRedirect(lat, Str(<<"1">>), fresh)
    \/ \E form_new_lang \in LanguageOptions, written \in BOOLEAN :
            SubmitForm(form_new_lang, <<"Red">>, DEFAULT_FARM_SIZE, written)

SpecSession == SessionInit /\ [][SessionNext]_vars

\* C3: a new-profile submit never replaces the stored row of a profile whose
\* name already exists (case-insensitively) in the profile table, and a New
\* Profile request for an existing name loads that profile and shows a notice.
C3_NoSilentOverwrite ==
    [][/\ ui'.event = "submit" =>
            \A i \in DOMAIN disk.rows :
                \E j \in DOMAIN disk'.rows : disk'.rows[j] = disk.rows[i]
       /\ (ui'.event = "new" /\ current_entered_name # <<>>
           /\ \E i \in DOMAIN disk.rows :
                 Lower(disk.rows[i].name) = Lower(current_entered_name))
          => /\ ui'.notice = "profile_exists_warning"
             /\ ss'.current_farmer_profile.k = "dict"
             /\ ~ss'.show_new_profile_form]_vars

(***************************************************************************)
(* The weather summarizer get_weather_forecast.  Temperatures, rain and    *)
(* wind are in hundredths of their unit, dt is in seconds, a date is the   *)
(* number of its day (the time zone of fromtimestamp is left out), and a   *)
(* formatted number is the pair of its count of decimals and its rounded   *)
(* value.                                                                  *)
(***************************************************************************)
SUMMARY_DAYS == 5

\* str.upper() of one symbol
UpperSym(c) ==
    CASE c = "a" -> "A"
      [] c = "b" -> "B"
      [] c = "n" -> "N"
      [] OTHER -> c

\* every letter lower-cased, the first too
LowerText(s) == Lower(s)

\* descending order
RECURSIVE sorted_dates_desc(_)
sorted_dates_desc(S) ==
    IF S = {} THEN <<>>
    ELSE LET first == CHOOSE d \in S : \A e \in S : d >= e
         IN <<first>> \o sorted_dates_desc(S \ {first})

\* str.capitalize()
capitalize(s) ==
    [i \in DOMAIN s |-> IF i = 1 THEN UpperSym(s[i]) ELSE LowerSym(s[i])]

\* round half to even of x / unit
RoundDiv(x, unit) ==
    LET q == x \div unit
        r == x % unit
    IN IF 2 * r < unit THEN q
       ELSE IF 2 * r > unit THEN q + 1
       ELSE IF q % 2 = 0 THEN q ELSE q + 1

\* f"{x:.0f}" and f"{x:.1f}"
Fmt0(x) == [decimals |-> 0, n |-> RoundDiv(x, 100)]

Fmt1(x) == [decimals |-> 1, n |-> RoundDiv(x, 10)]

\* one entry of data['list']; PyNone is a key the entry does not hold
Sample(dt, temp, temp_min, temp_max, description, rain, wind) ==
    [dt |-> dt, temp |-> temp, temp_min |-> temp_min, temp_max |-> temp_max,
     description |-> description, rain |-> rain, wind |-> wind]

\* datetime.fromtimestamp(dt).strftime("%Y-%m-%d")
DateOf(dt) == dt \div 86400

\* what the loop body does with one entry: "skip" it (continue), raise out of
\* the loop ("fatal"), or add it to its day ("ok")
ItemFate(item) ==
    IF \/ item.dt.k = "none" \/ item.temp.k = "none" \/ item.temp_min.k = "none"
       \/ item.temp_max.k = "none" \/ item.description.k = "none"
    THEN "skip"
    ELSE IF item.dt.k # "num" THEN "skip"
    ELSE IF item.description.k # "str" THEN "fatal"
    ELSE IF \/ item.temp_min.k # "num" \/ item.temp_max.k # "num"
            \/ item.temp.k # "num"
            \/ item.rain.k \notin {"num", "none"}
            \/ item.wind.k \notin {"num", "none"}
    THEN "fatal"
    ELSE "ok"

rain_3h(item) == IF item.rain.k = "none" THEN 0 ELSE item.rain.v

wind_speed(item) == IF item.wind.k = "none" THEN 0 ELSE item.wind.v

\* the alerts with the thresholds themselves counted in
ItemAlertsInclusive(item) ==
    (IF rain_3h(item) >= 5 * 100
     THEN {[kind |-> "Heavy rain", value |-> Fmt1(rain_3h(item))]} ELSE {})
    \cup (IF item.temp.v >= 38 * 100
          THEN {[kind |-> "High temp", value |-> Fmt0(item.temp.v)]} ELSE {})
    \cup (IF item.temp.v <= 5 * 100
          THEN {[kind |-> "Low temp", value |-> Fmt0(item.temp.v)]} ELSE {})
    \cup (IF wind_speed(item) >= 15 * 100
          THEN {[kind |-> "Strong wind", value |-> Fmt1(wind_speed(item))]} ELSE {})

\* the alerts one entry adds to its day
ItemAlerts(item) ==
    (IF rain_3h(item) > 5 * 100
     THEN {[kind |-> "Heavy rain", value |-> Fmt1(rain_3h(item))]} ELSE {})
    \cup (IF item.temp.v > 38 * 100
          THEN {[kind |-> "High temp", value |-> Fmt0(item.temp.v)]} ELSE {})
    \cup (IF item.temp.v < 5 * 100
          THEN {[kind |-> "Low temp", value |-> Fmt0(item.temp.v)]} ELSE {})
    \cup (IF wind_speed(item) > 15 * 100
          THEN {[kind |-> "Strong wind", value |-> Fmt1(wind_speed(item))]} ELSE {})

Smaller(a, b) == IF a <= b THEN a ELSE b

Larger(a, b) == IF a >= b THEN a ELSE b

\* daily_forecasts after the loop over data['list']; a day starts from
\* min_temp = inf, max_temp = -inf, no conditions, total_rain = 0, no alerts
RECURSIVE daily_forecasts(_)
daily_forecasts(list) ==
    IF list = <<>> THEN <<>>
    ELSE LET days == daily_forecasts(SubSeq(list, 1, Len(list) - 1))
             item == list[Len(list)]
         IN IF ItemFate(item) # "ok" THEN days
            ELSE LET date_str == DateOf(item.dt.v)
                     fresh == date_str \notin DOMAIN days
                     day_data ==
                        [min_temp |-> IF fresh THEN item.temp_min.v
                                      ELSE Smaller(days[date_str].min_temp, item.temp_min.v),
                         max_temp |-> IF fresh THEN item.temp_max.v
                                      ELSE Larger(days[date_str].max_temp, item.temp_max.v),
                         conditions |-> (IF fresh THEN {} ELSE days[date_str].conditions)
                                        \cup {capitalize(item.description.v)},
                         total_rain |-> (IF fresh THEN 0 ELSE days[date_str].total_rain)
                                        + rain_3h(item),
                         alerts |-> (IF fresh THEN {} ELSE days[date_str].alerts)
                                    \cup ItemAlerts(item)]
                 IN (date_str :> day_data) @@ days

\* sorted(daily_forecasts.keys())
RECURSIVE sorted_dates(_)
sorted_dates(S) ==
    IF S = {} THEN <<>>
    ELSE LET first == CHOOSE d \in S : \A e \in S : d <= e
         IN <<first>> \o sorted_dates(S \ {first})

\* one line of processed_summary
summary_line(date_str, day_data, today) ==
    [date |-> date_str,
     day_label |-> IF date_str = today THEN "Today"
                   ELSE IF date_str = today + 1 THEN "Tomorrow" ELSE "day_name",
     min_t_str |-> Fmt0(day_data.min_temp),
     max_t_str |-> Fmt0(day_data.max_temp),
     conditions |-> day_data.conditions,
     rain_str |-> IF day_data.total_rain > 10 THEN Fmt1(day_data.total_rain) ELSE PyNone,
     alerts |-> day_data.alerts]

WxError(message) == [status |-> "error", message |-> message]

\* what requests.get, raise_for_status and response.json do
HttpOk(list, city) == [k |-> "ok", list |-> list, city |-> city]

HttpError(status_code) == [k |-> "http", status_code |-> status_code]

NetworkFailure == [k |-> "network"]

\* a body that is not JSON: response.json raises a RequestException in
\* requests 2.27 and later, a ValueError before
BadJson(cls) == [k |-> "json", cls |-> cls]

\* the except branches of get_weather_forecast
HttpErrorMessage(status_code, latitude, longitude) ==
    CASE status_code = 401 -> WxError("Weather API Key invalid or unauthorized.")
      [] status_code = 404 ->
            [status |-> "error", message |-> "Weather data not found for location",
             latitude |-> latitude, longitude |-> longitude]
      [] status_code = 429 -> WxError("Weather API rate limit exceeded.")
      [] OTHER -> [status |-> "error", message |-> "Weather service error",
                   code |-> status_code]

\* the try block after a response with status 200 and a JSON body
ProcessForecast(latitude, longitude, http, today) ==
    IF http.list.k # "list"
    THEN [days |-> <<>>, result |-> WxError("Unexpected weather API response format.")]
    ELSE IF latitude.k # "num" \/ longitude.k # "num"
    THEN [days |-> <<>>,
          result |-> WxError("An unexpected error occurred while processing weather data")]
    ELSE IF \E i \in DOMAIN http.list.v : ItemFate(http.list.v[i]) = "fatal"
    THEN [days |-> <<>>,
          result |-> WxError("An unexpected error occurred while processing weather data")]
    ELSE LET days == daily_forecasts(http.list.v)
             dates == sorted_dates(DOMAIN days)
             shown == SubSeq(dates, 1, Smaller(Len(dates), SUMMARY_DAYS))
             processed_summary ==
                [i \in DOMAIN shown |-> summary_line(shown[i], days[shown[i]], today)]
         IN [days |-> days,
             result |->
                IF processed_summary = <<>>
                THEN WxError("Could not generate daily forecast summary.")
                ELSE [status |-> "success",
                      location |-> IF http.city.k = "str" THEN http.city
                                   ELSE [k |-> "latlon", lat |-> latitude.v,
                                         lon |-> longitude.v],
                      daily_summary |-> processed_summary]]

\* the api-key test made before the location test
get_weather_forecast_key_first(latitude, longitude, api_key, http, today) ==
    IF api_key = <<>>
    THEN [result |-> WxError("Weather API Key is missing in the configuration."),
          http_calls |-> 0, days |-> <<>>]
    ELSE [result |-> WxError("Location not set in profile. Cannot fetch weather."),
          http_calls |-> 0, days |-> <<>>]

\* the result, the number of HTTP requests made, and daily_forecasts as the
\* loop left it
get_weather_forecast(latitude, longitude, api_key, http, today) ==
    IF latitude = Num(0) /\ longitude = Num(0)
    THEN [result |-> WxError("Location not set in profile. Cannot fetch weather."),
          http_calls |-> 0, days |-> <<>>]
    ELSE IF api_key = <<>>
    THEN [result |-> WxError("Weather API Key is missing in the configuration."),
          http_calls |-> 0, days |-> <<>>]
    ELSE [http_calls |-> 1,
          days |-> IF http.k = "ok"
                   THEN ProcessForecast(latitude, longitude, http, today).days ELSE <<>>,
          result |->
            CASE http.k = "ok" -> ProcessForecast(latitude, longitude, http, today).result
              [] http.k = "http" ->
                    HttpErrorMessage(http.status_code, latitude, longitude)
              [] http.k = "network" ->
                    WxError("Network error connecting to weather service.")
              [] http.k = "json" ->
                    IF http.cls = "RequestException"
                    THEN WxError("Network error connecting to weather service.")
                    ELSE WxError("An unexpected error occurred while processing weather data")]

NoWeatherCall ==
    [called |-> FALSE, latitude |-> PyNone, longitude |-> PyNone, api_key |-> <<>>,
     http |-> PyNone, result |-> PyNone, http_calls |-> 0, days |-> <<>>]

\* one call of get_weather_forecast, the only one of a behaviour; the answer
\* of the weather service is kept only when a request was made
WeatherCall(latitude, longitude, api_key, http, today) ==
    LET out == get_weather_forecast(latitude, longitude, api_key, http, today)
    IN /\ ~wx.called
       /\ wx' = [called |-> TRUE, latitude |-> latitude, longitude |-> longitude,
                 api_key |-> api_key,
                 http |-> IF out.http_calls = 0 THEN PyNone ELSE http,
                 result |-> out.result, http_calls |-> out.http_calls,
                 days |-> out.days]
       /\ UNCHANGED <<df, disk, last, ss, ui, qa_log, req, hist, writers>>

\* dt of the given hour of the given day
At(day, hour) == Num(day * 86400 + hour * 3600)

\* entries of data['list']: four well-formed ones, one without its main part,
\* one whose dt is a text, one whose temp_min is a text, and two whose values
\* are the thresholds of the alerts
WxSamples ==
    {Sample(At(1, 6), Num(1500), Num(1000), Num(2000), Str(<<"a", "b">>), PyNone, Num(300)),
     Sample(At(1, 18), Num(1500), Num(800), Num(2200), Str(<<"b">>), Num(600), Num(300)),
     Sample(At(1, 12), Num(3950), Num(1050), Num(3950), Str(<<"A", "B">>), Num(4), Num(1600)),
     Sample(At(0, 12), Num(400), Num(250), Num(1200), Str(<<"b">>), Num(8), PyNone),
     Sample(At(1, 6), PyNone, PyNone, PyNone, Str(<<"b">>), PyNone, PyNone),
     Sample(Str(<<"x">>), Num(1500), Num(1000), Num(2000), Str(<<"b">>), PyNone, PyNone),
     Sample(At(2, 6), Num(1500), Str(<<"x">>), Num(2000), Str(<<"b">>), PyNone, PyNone),
     Sample(At(3, 6), Num(3800), Num(3000), Num(3800), Str(<<"a">>), Num(500), Num(1500)),
     Sample(At(3, 12), Num(500), Num(500), Num(600), Str(<<"a">>), PyNone, PyNone)}

PlainSample(day) ==
    Sample(At(day, 9), Num(2000), Num(1500), Num(2500), Str(<<"a">>), PyNone, PyNone)

\* answers with more days than the summary shows, not in date order
LongLists ==
    {<<PlainSample(6), PlainSample(2), PlainSample(5), PlainSample(1),
       PlainSample(4), PlainSample(3)>>,
     <<PlainSample(3), PlainSample(7), PlainSample(1), PlainSample(2),
       PlainSample(6), PlainSample(5), PlainSample(4), PlainSample(3)>>}

ForecastLists == Collections(WxSamples, MaxSamples) \cup LongLists

HttpOutcomes ==
    {HttpOk(list, city) :
        list \in {PyNone} \cup {[k |-> "list", v |-> l] : l \in ForecastLists},
        city \in {PyNone, Str(<<"City">>)}}
    \cup {HttpError(status_code) : status_code \in {400, 401, 404, 429, 500}}
    \cup {NetworkFailure, BadJson("RequestException"), BadJson("ValueError")}

WeatherInit ==
    /\ wx = NoWeatherCall
    /\ df = <<>> /\ disk = NoFile /\ last = Idle /\ ss = Idle /\ ui = Idle
    /\ qa_log = Idle /\ req = Idle /\ hist = Idle /\ writers = Idle

WeatherNext ==
    \E latitude \in {Num(0), Num(5), Str(<<"x">>)}, longitude \in {Num(0), Num(7)},
       api_key \in {<<>>, <<"k">>}, http \in HttpOutcomes, today \in {0, 1} :
        WeatherCall(latitude, longitude, api_key, http, today)

SpecWeather == WeatherInit /\ [][WeatherNext]_vars

(***************************************************************************)
(* Advice requests: process_farmer_request, the response generator and the *)
(* interaction log.  A log row carries the timestamp (in seconds), the     *)
(* farmer, the language, the query and the response; the internal_prompt   *)
(* column is written and never read, and is left out.  The file is         *)
(* [exists, headers, rows, malformed]: headers counts the header lines.    *)
(***************************************************************************)
NoLog == [exists |-> FALSE, headers |-> 0, rows |-> <<>>, malformed |-> FALSE]

\* what llm.invoke does: it returns a text or raises
Returns(text) == [k |-> "text", v |-> text]

Raises(kind) == [k |-> "raise", v |-> kind]

\* an exception of the endpoint: str(e), and whether e.response.prompt_feedback
\* holds a block_reason
LlmError(text, block_reason) == [text |-> text, block_reason |-> block_reason]

\* a in b for texts: a occurs as a run of b
Contains(text, keyword) ==
    \E i \in 1..(Len(text) - Len(keyword) + 1) :
        SubSeq(text, i, i + Len(keyword) - 1) = keyword

startswith(text, prefix) ==
    Len(text) >= Len(prefix) /\ SubSeq(text, 1, Len(prefix)) = prefix

\* a weaker list: only the Error: prefix
ErrorPrefixOnly == {<<"Error", ":">>}

SentinelPrefixes ==
    {<<"Error", ":">>, <<"Sorry", ",">>, <<"Warning", ":">>,
     <<"Could", " ", "not">>, <<"Internal", " ", "error">>}

\* the tests of the except branch with the quota test put first
err_msg_quota_first(e) ==
    LET err_str == Lower(e.text)
        has(word) == Contains(err_str, <<word>>)
    IN IF has("quota") \/ Contains(err_str, <<"resource", " ", "has", " ", "been", " ", "exhausted">>)
       THEN <<"Error", ":", " ", "quota">>
       ELSE IF has("api key") \/ has("permission") \/ has("denied") \/ has("authenticate")
       THEN <<"Error", ":", " ", "authenticate">>
       ELSE IF e.block_reason THEN <<"Warning", ":", " ", "blocked">>
       ELSE IF has("candidate") /\ has("finish reason") /\ (has("safety") \/ has("block"))
       THEN <<"Warning", ":", " ", "might", " ", "blocked">>
       ELSE <<"Sorry", ",", " ", "communication">>

\* the message built in the except branch from str(e).lower(); each word of
\* the message of the exception is one symbol
err_msg(e) ==
    LET err_str == Lower(e.text)
        has(word) == Contains(err_str, <<word>>)
    IN IF has("api key") \/ has("permission") \/ has("denied") \/ has("authenticate")
       THEN <<"Error", ":", " ", "authenticate">>
       ELSE IF has("quota") \/ Contains(err_str, <<"resource", " ", "has", " ", "been", " ", "exhausted">>)
       THEN <<"Error", ":", " ", "quota">>
       ELSE IF e.block_reason THEN <<"Warning", ":", " ", "blocked">>
       ELSE IF has("candidate") /\ has("finish reason") /\ (has("safety") \/ has("block"))
       THEN <<"Warning", ":", " ", "might", " ", "blocked">>
       ELSE <<"Sorry", ",", " ", "communication">>

generate_final_response(llm) ==
    IF llm.k = "text" THEN Strip(llm.v) ELSE err_msg(llm.v)

is_error_response(final_response) ==
    \E prefix \in SentinelPrefixes : startswith(final_response, prefix)

\* an append that writes nothing
log_qa_skip(log, entry, written, opened) == log

\* to_csv(mode='a', header=not file_exists) under try / except.  A write that
\* fails is caught; it fails before the file is opened and leaves the log as
\* it was, or after the open (opened), which by then has created the file.
log_qa(log, entry, written, opened) ==
    IF written
    THEN [exists |-> TRUE,
          headers |-> IF log.exists THEN log.headers ELSE log.headers + 1,
          rows |-> Append(log.rows, entry),
          malformed |-> log.malformed]
    ELSE IF opened THEN [log EXCEPT !.exists = TRUE]
    ELSE log

LogEntry(timestamp, farmer_name, language, query, response) ==
    [timestamp |-> timestamp, farmer_name |-> Strip(farmer_name), language |-> language,
     query |-> query, response |-> response]

\* the time of the last row of the log
LastStamp(log) ==
    IF log.rows = <<>> THEN 0 ELSE log.rows[Len(log.rows)].timestamp

\* datetime.now() at a request: the clock does not run backwards, and two
\* requests may fall into one second
Clock(log) == {LastStamp(log), LastStamp(log) + 1} \ {0}

\* one call of log_qa
LogAppend(entry, written, opened) ==
    /\ qa_log' = log_qa(qa_log, entry, written, opened)
    /\ Len(qa_log'.rows) <= MaxLog
    /\ last' = [op |-> "log_qa", entry |-> entry, written |-> written, opened |-> opened]
    /\ UNCHANGED <<df, disk, ss, ui, req, wx, hist, writers>>

LogInit ==
    /\ qa_log = NoLog
    /\ last = [op |-> "init", entry |-> PyNone, written |-> FALSE, opened |-> FALSE]
    /\ df = <<>> /\ disk = NoFile /\ ss = Idle /\ ui = Idle /\ req = Idle
    /\ wx = Idle /\ hist = Idle /\ writers = Idle

LogNext ==
    \E farmer_name \in {<<"a">>, <<"b", " ">>}, response \in {<<"r", "a">>, <<"r", "b">>},
       written \in BOOLEAN, opened \in BOOLEAN :
        \E now \in Clock(qa_log) :
            LogAppend(LogEntry(now, farmer_name, <<"English">>, <<"q">>, response),
                      written, opened)

SpecLog == LogInit /\ [][LogNext]_vars

(***************************************************************************)
(* get_recent_qa_history.  Its text is a sequence of lines: the header     *)
(* line and one history_entry line per row, or the one line of             *)
(* history_not_found, or the empty text.                                   *)
(***************************************************************************)
QUERY_SHORT == 150

RESPONSE_SHORT == 250

\* text[:n] + '...' when the text is longer than n (lengths count symbols)
Shorten(text, n) ==
    IF Len(text) > n THEN SubSeq(text, 1, n) \o <<"...">> ELSE text

history_header == [k |-> "history_header"]

history_not_found == <<[k |-> "history_not_found"]>>

history_entry(lang, query, response) ==
    [k |-> "history_entry", lang |-> lang,
     query |-> Shorten(query, QUERY_SHORT), response |-> Shorten(response, RESPONSE_SHORT)]

\* log_df['farmer_name'].fillna('').str.lower() == farmer_name_clean: the
\* indices of the rows kept.  A column read as numbers has no .str accessor;
\* a column of numbers and missing cells compares unequal everywhere.
farmer_history(rows, farmer_name_clean) ==
    LET col == [i \in DOMAIN rows |-> rows[i].farmer_name]
        present == {i \in DOMAIN col : col[i] \notin NaValues}
        numeric == present # {} /\ \A i \in present : IsInt(col[i]) \/ IsFloat(col[i])
    IN IF numeric /\ present = DOMAIN col
       THEN Raises("AttributeError")
       ELSE [k |-> "rows",
             v |-> {i \in present : ~numeric /\ Lower(col[i]) = farmer_name_clean}]

\* sort_values(by='timestamp', ascending=False): every order of the rows S
\* with timestamps descending; rows of equal timestamp come in any order
sort_values(rows, S) ==
    {order \in [1..Cardinality(S) -> S] :
        /\ \A i, j \in DOMAIN order : i # j => order[i] # order[j]
        /\ \A i, j \in DOMAIN order :
              i < j => rows[order[i]].timestamp >= rows[order[j]].timestamp}

\* the orders the sort of one call may produce; <<>> when it sorts nothing
HistoryOrders(log, farmer_name) ==
    LET kept == farmer_history(log.rows, Lower(Strip(farmer_name)))
    IN IF kept.k = "rows" THEN sort_values(log.rows, kept.v) ELSE {<<>>}

\* order is the outcome of the sort
get_recent_qa_history(log, farmer_name, num_entries, order) ==
    LET farmer_name_clean == Lower(Strip(farmer_name))
        kept == farmer_history(log.rows, farmer_name_clean)
        cell(f(_)) == ReadTextColumn([i \in DOMAIN log.rows |-> f(log.rows[i])], <<"nan">>)
        lang_str == cell(LAMBDA row : row.language)
        query_str == cell(LAMBDA row : row.query)
        response_str == cell(LAMBDA row : row.response)
        shown == IF num_entries < Len(order) THEN num_entries ELSE Len(order)
    IN IF Strip(farmer_name) = <<>> THEN <<>>
       ELSE IF ~log.exists THEN <<>>
       ELSE IF log.malformed THEN <<>>
       ELSE IF log.headers = 0 THEN <<>>
       ELSE IF log.rows = <<>> THEN <<>>
       ELSE IF kept.k = "raise" THEN <<>>
       ELSE IF kept.v = {} THEN history_not_found
       ELSE <<history_header>> \o
            [n \in 1..shown |->
                history_entry(lang_str[order[n]], query_str[order[n]],
                              response_str[order[n]])]

NoHistoryCall ==
    [called |-> FALSE, farmer_name |-> <<>>, num_entries |-> 0, order |-> <<>>,
     result |-> <<>>]

\* one call of get_recent_qa_history, the only one of a behaviour
HistoryCall(farmer_name, num_entries, order) ==
    /\ ~hist.called
    /\ order \in HistoryOrders(qa_log, farmer_name)
    /\ hist' = [called |-> TRUE, farmer_name |-> farmer_name,
                num_entries |-> num_entries, order |-> order,
                result |-> get_recent_qa_history(qa_log, farmer_name, num_entries, order)]
    /\ UNCHANGED <<df, disk, last, ss, ui, qa_log, req, wx, writers>>

\* the names logged: two spellings of one farmer, another farmer, two numbers
LoggedNames == {<<"a">>, <<"A">>, <<"b">>, <<"1">>, <<"1", "0">>}

ResponseOf == <<<<"r", "a">>, <<"r", "b">>, <<"r", "n">>, <<"r", "A">>, <<"r", "B">>>>

\* the timestamps of n rows appended in turn: the clock never runs backwards
Stamps(n) ==
    {ts \in [1..n -> 1..n] :
        /\ n > 0 => ts[1] = 1
        /\ \A i \in 2..n : ts[i] \in {ts[i - 1], ts[i - 1] + 1}}

\* the logs log_qa can have written, row i holding its own response
WrittenLogs ==
    UNION {{[exists |-> TRUE, headers |-> 1, malformed |-> FALSE,
             rows |-> [i \in 1..n |->
                         LogEntry(ts[i], names[i], <<"English">>, <<"q">>,
                                  ResponseOf[i])]] :
               names \in [1..n -> LoggedNames], ts \in Stamps(n)} :
           n \in 1..MaxHist}

\* no file, an empty file, a header alone, rows under no header, a damaged file
LogTables ==
    {NoLog,
     [exists |-> TRUE, headers |-> 0, rows |-> <<>>, malformed |-> FALSE],
     [exists |-> TRUE, headers |-> 1, rows |-> <<>>, malformed |-> FALSE],
     [exists |-> TRUE, headers |-> 0, malformed |-> FALSE,
      rows |-> <<LogEntry(1, <<"a">>, <<"English">>, <<"q">>, <<"r", "a">>)>>],
     [exists |-> TRUE, headers |-> 1, malformed |-> TRUE,
      rows |-> <<LogEntry(1, <<"a">>, <<"English">>, <<"q">>, <<"r", "a">>)>>]}
    \cup WrittenLogs

HistoryInit ==
    /\ qa_log \in LogTables
    /\ hist = NoHistoryCall /\ writers = Idle
    /\ df = <<>> /\ disk = NoFile /\ last = Idle /\ ss = Idle /\ ui = Idle
    /\ req = Idle /\ wx = Idle

HistoryNext ==
    \E farmer_name \in {<<>>, <<"a">>, <<" ", "A", " ">>, <<"b">>, <<"1">>},
       num_entries \in 1..MaxHist :
        \E order \in HistoryOrders(qa_log, farmer_name) :
            HistoryCall(farmer_name, num_entries, order)

SpecHistory == HistoryInit /\ [][HistoryNext]_vars

\* the call: what it returned (status, farmer_name, response_text and
\* debug_internal_prompt), what it was given and what it did on the way;
\* weather is its call of get_weather_forecast
Outcome(generated, final_response, status, response_text, log_calls, written, intent, internal_prompt, farmer_name, text_query, farmer_profile, llm, weather) ==
    [generated |-> generated, final_response |-> final_response,
     status |-> status, response_text |-> response_text,
     log_calls |-> log_calls, written |-> written,
     intent |-> intent, internal_prompt |-> internal_prompt,
     farmer_name |-> farmer_name, text_query |-> text_query,
     farmer_profile |-> farmer_profile, llm |-> llm, weather |-> weather]

NoWeatherUse ==
    [called |-> FALSE, latitude |-> PyNone, longitude |-> PyNone, http_calls |-> 0,
     result |-> PyNone]

NoRequest ==
    Outcome(FALSE, <<>>, "none", <<>>, 0, FALSE, "none", <<>>, <<>>, <<>>, PyNone, PyNone,
            NoWeatherUse)

\* float(value) succeeds: a number, or a text that spells one
FloatOk(value) ==
    value.k = "num" \/ (value.k = "str" /\ IsInt(Strip(value.v)))

FloatOf(value) ==
    IF value.k = "num" THEN value.v ELSE DigitsVal(Strip(value.v))

\* each coordinate falling back to its default on its own
profile_coords_each(lat, lon) ==
    [lat |-> IF FloatOk(lat) THEN FloatOf(lat) ELSE PROFILE_DEFAULT_LAT,
     lon |-> IF FloatOk(lon) THEN FloatOf(lon) ELSE PROFILE_DEFAULT_LON]

\* try: lat_f = float(lat); lon_f = float(lon), and both defaults when either
\* conversion raises
profile_coords(lat, lon) ==
    IF FloatOk(lat) /\ FloatOk(lon)
    THEN [lat |-> FloatOf(lat), lon |-> FloatOf(lon)]
    ELSE [lat |-> PROFILE_DEFAULT_LAT, lon |-> PROFILE_DEFAULT_LON]

\* "{:.2f}" of a whole number of degrees
Fmt2(x) == [decimals |-> 2, n |-> x * 100]

\* location_desc of the farmer context line
location_desc(lat_f, lon_f) ==
    IF lat_f # 0 \/ lon_f # 0
    THEN [k |-> "location_set_description", lat |-> Fmt2(lat_f), lon |-> Fmt2(lon_f)]
    ELSE [k |-> "location_not_set_description"]

\* the keyword lists of the intent chain, the Latin-script entries
CropKeywords ==
    {<<"crop", " ", "recommend">>, <<"suggest", " ", "crop">>, <<"kya", " ", "ugana">>}

MarketKeywords ==
    {<<"market", " ", "price">>, <<"bhav", " ", "kya", " ", "hai">>,
     <<"rate", " ", "kya", " ", "hai">>}

WeatherKeywords == {<<"weather">>, <<"mausam">>}

\* rog is spelled letter by letter, so that it can occur inside a word
HealthKeywords ==
    {<<"disease">>, <<"pest">>, <<"problem">>, <<"r", "o", "g">>, <<"bimari">>}

\* the chain with the weather test put first
IntentOfWeatherFirst(query_lower) ==
    IF \E keyword \in WeatherKeywords : Contains(query_lower, keyword) THEN "weather"
    ELSE IF \E keyword \in CropKeywords : Contains(query_lower, keyword) THEN "crop"
    ELSE IF \E keyword \in MarketKeywords : Contains(query_lower, keyword) THEN "market"
    ELSE IF \E keyword \in HealthKeywords : Contains(query_lower, keyword) THEN "health"
    ELSE "general"

\* the if / elif chain and its fallback
IntentOf(query_lower) ==
    IF \E keyword \in CropKeywords : Contains(query_lower, keyword) THEN "crop"
    ELSE IF \E keyword \in MarketKeywords : Contains(query_lower, keyword) THEN "market"
    ELSE IF \E keyword \in WeatherKeywords : Contains(query_lower, keyword) THEN "weather"
    ELSE IF \E keyword \in HealthKeywords : Contains(query_lower, keyword) THEN "health"
    ELSE "general"

\* the crop named by a word of the market query
MarketCrop(query_lower) ==
    LET words == {query_lower[i] : i \in DOMAIN query_lower} \ {" "}
    IN IF words \cap {"rice", "chawal"} # {} THEN "Rice"
       ELSE IF words \cap {"maize", "makka"} # {} THEN "Maize"
       ELSE IF words \cap {"cotton", "kapas"} # {} THEN "Cotton"
       ELSE IF words \cap {"tomato", "tamatar"} # {} THEN "Tomato"
       ELSE "Wheat"

\* the marker line of an intent and the data lines that follow it; the crops,
\* prices and diagnosis are drawn at random by the code and are left out
IntentLines(intent, query_clean, soil, weather_info) ==
    <<[k |-> "intent", intent |-> intent]>> \o
    CASE intent = "crop" -> <<[k |-> "crop_suggestion_data", soil |-> soil]>>
      [] intent = "market" ->
            <<[k |-> "market_price_data", crop |-> MarketCrop(Lower(query_clean))]>>
      [] intent = "weather" ->
            IF weather_info.status = "success"
            THEN <<[k |-> "weather_data_header", location |-> weather_info.location]>>
                 \o [i \in DOMAIN weather_info.daily_summary |->
                        [k |-> "daily_summary", line |-> weather_info.daily_summary[i]]]
            ELSE <<[k |-> "weather_data_error", message |-> weather_info.message]>>
      [] intent = "health" -> <<[k |-> "plant_health_data"]>>
      [] OTHER -> <<[k |-> "general_query_data", query |-> query_clean]>>

\* the lines of the prompt with the intent block put before the query
PromptLinesIntentFirst(context, history_context, current, intent_lines) ==
    <<context>>
    \o (IF history_context # <<>> /\ history_context # history_not_found
        THEN <<[k |-> "history", lines |-> history_context]>> ELSE <<>>)
    \o intent_lines \o current

\* internal_prompt_lines in the order of the appends
PromptLines(context, history_context, current, intent_lines) ==
    <<context>>
    \o (IF history_context # <<>> /\ history_context # history_not_found
        THEN <<[k |-> "history", lines |-> history_context]>> ELSE <<>>)
    \o current \o intent_lines

\* llm is PyNone when the model could not be built; order is the outcome of
\* the sort of the history, http and today what the weather service answers
\* and the day of the call, now the clock, written and opened what becomes
\* of the write to the log
process_farmer_request(farmer_profile, text_query, llm, weather_api_key, output_language, written, opened, order, http, today, now) ==
    LET farmer_name == Strip(farmer_profile.v.name)
        query_clean == Strip(text_query)
        query_lower == Lower(query_clean)
        coords == profile_coords(farmer_profile.v.latitude, farmer_profile.v.longitude)
        lat_f == coords.lat
        lon_f == coords.lon
        soil == farmer_profile.v.soil_type
        context == [k |-> "farmer_context_data", name |-> farmer_name,
                    location_description |-> location_desc(lat_f, lon_f), soil |-> soil]
        history_context == get_recent_qa_history(qa_log, farmer_name, 3, order)
        current == <<[k |-> "current_interaction"],
                     [k |-> "current_query", language |-> output_language,
                      query |-> query_clean]>>
        intent == IntentOf(query_lower)
        forecast == get_weather_forecast(Num(lat_f), Num(lon_f), weather_api_key,
                                         http, today)
        weather_info == IF intent = "weather" THEN forecast.result ELSE PyNone
        weather ==
            IF intent = "weather"
            THEN [called |-> TRUE, latitude |-> Num(lat_f), longitude |-> Num(lon_f),
                  http_calls |-> forecast.http_calls, result |-> forecast.result]
            ELSE NoWeatherUse
        internal_prompt ==
            PromptLines(context, history_context, current,
                        IntentLines(intent, query_clean, soil, weather_info))
        final_response == generate_final_response(llm)
    IN IF farmer_profile.k # "dict" \/ Strip(farmer_profile.v.name) = <<>>
       THEN /\ req' = Outcome(FALSE, <<>>, "error",
                              <<"Internal", " ", "error", ":", " ", "profile">>, 0, written,
                              "none", <<>>, <<>>, text_query, farmer_profile, llm,
                              NoWeatherUse)
            /\ qa_log' = qa_log
       ELSE IF llm.k = "none"
       THEN /\ req' = Outcome(FALSE, <<>>, "error", <<"llm_init_error">>, 0, written,
                              intent, internal_prompt, farmer_name, text_query,
                              farmer_profile, llm, weather)
            /\ qa_log' = qa_log
       ELSE IF final_response # <<>> /\ ~is_error_response(final_response)
       THEN /\ qa_log' = log_qa(qa_log,
                                LogEntry(now, farmer_name, output_language,
                                         query_clean, final_response), written, opened)
            /\ req' = Outcome(TRUE, final_response, "success", final_response, 1, written,
                              intent, internal_prompt, farmer_name, text_query,
                              farmer_profile, llm, weather)
       ELSE IF final_response = <<>>
       THEN /\ req' = Outcome(TRUE, final_response, "error", <<"processing_error">>, 0,
                              written, intent, internal_prompt, farmer_name, text_query,
                              farmer_profile, llm, weather)
            /\ qa_log' = qa_log
       ELSE /\ req' = Outcome(TRUE, final_response, "error", final_response, 0, written,
                              intent, internal_prompt, farmer_name, text_query,
                              farmer_profile, llm, weather)
            /\ qa_log' = qa_log

AdviceRequest(farmer_profile, text_query, llm, weather_api_key, output_language, written, opened, http, today, now) ==
    /\ now \in Clock(qa_log)
    /\ \E order \in HistoryOrders(qa_log, IF farmer_profile.k = "dict"
                                           THEN farmer_profile.v.name ELSE <<>>) :
            process_farmer_request(farmer_profile, text_query, llm, weather_api_key,
                                   output_language, written, opened, order, http, today,
                                   now)
    /\ Len(qa_log'.rows) <= MaxLog
    /\ UNCHANGED <<df, disk, last, ss, ui, wx, hist, writers>>

\* texts the model may return: the five prefixes, and texts that miss them by
\* a colon, a comma, a letter case or a position
LlmTexts ==
    {<<>>, <<" ">>, <<"ok">>,
     <<"Error", ":">>, <<" ", "Error", ":", " ", "ok">>, <<"Error">>,
     <<"error", ":">>, <<"ok", " ", "Error", ":">>,
     <<"Sorry", ",">>, <<"Sorry">>, <<"Warning", ":">>,
     <<"Could", " ", "not">>, <<"Internal", " ", "error">>}

\* exceptions whose message names one cause, two causes or none
LlmErrors ==
    {LlmError(<<"permission", " ", "denied">>, FALSE),
     LlmError(<<"Quota", " ", "exceeded">>, FALSE),
     LlmError(<<"quota", " ", "denied">>, TRUE),
     LlmError(<<"quota">>, TRUE),
     LlmError(<<"timeout">>, TRUE),
     LlmError(<<"candidate", " ", "finish reason", " ", "safety">>, FALSE),
     LlmError(<<"timeout">>, FALSE)}

LlmOutcomes ==
    {PyNone} \cup {Returns(text) : text \in LlmTexts}

AdviceProfiles ==
    {PyNone,
     Found([name |-> <<"a">>, language |-> DefaultLanguage, soil_type |-> DefaultSoil,
            latitude |-> Num(0), longitude |-> Num(0), farm_size_ha |-> 1]),
     Found([name |-> <<" ">>, language |-> DefaultLanguage, soil_type |-> DefaultSoil,
            latitude |-> Num(0), longitude |-> Num(0), farm_size_ha |-> 1])}

AdviceInit ==
    /\ qa_log = NoLog
    /\ req = NoRequest
    /\ df = <<>> /\ disk = NoFile /\ last = Idle /\ ss = Idle /\ ui = Idle /\ wx = Idle /\ hist = Idle /\ writers = Idle

\* a request whose endpoint call returns
AdviceAnswered ==
    \E farmer_profile \in AdviceProfiles, llm \in LlmOutcomes,
       output_language \in {DefaultLanguage}, written \in BOOLEAN :
        AdviceRequest(farmer_profile, <<" ", "q">>, llm, <<"k">>, output_language, written,
                      FALSE, NetworkFailure, 0, LastStamp(qa_log) + 1)

\* a request whose endpoint call raises
AdviceFailed ==
    \E farmer_profile \in {p \in AdviceProfiles : p # PyNone /\ p.v.name = <<"a">>},
       e \in LlmErrors, written \in BOOLEAN :
        AdviceRequest(farmer_profile, <<" ", "q">>, Raises(e), <<"k">>, DefaultLanguage,
                      written, FALSE, NetworkFailure, 0, LastStamp(qa_log) + 1)

AdviceNext == AdviceAnswered \/ AdviceFailed

SpecAdvice == AdviceInit /\ [][AdviceNext]_vars

\* requests in a row for farmers whose names differ in letter case or spell a
\* number, each with its own write to the log and its own reading of the clock
RoundProfiles ==
    {Found([name |-> name, language |-> DefaultLanguage, soil_type |-> DefaultSoil,
            latitude |-> Num(0), longitude |-> Num(0), farm_size_ha |-> 1]) :
        name \in {<<"a">>, <<"A", " ">>, <<"1">>}}

RoundInit == AdviceInit

RoundNext ==
    \E farmer_profile \in RoundProfiles, text_query \in {<<"q">>, <<"hello">>},
       written \in BOOLEAN, opened \in BOOLEAN :
        \E now \in Clock(qa_log) :
            /\ written => ~opened
            /\ AdviceRequest(farmer_profile, text_query, Returns(<<"ok">>), <<"k">>,
                             DefaultLanguage, written, opened, NetworkFailure, 0, now)

SpecRound == RoundInit /\ [][RoundNext]_vars

(***************************************************************************)
(* The Get Advice button of main(): the input validations, then            *)
(* initialize_llm and process_farmer_request.  The query and the two keys  *)
(* are the values of their widgets at the click; last keeps them.          *)
(***************************************************************************)
\* the key test without its strip()
gemini_key_present_unstripped(widget_gemini_key) == widget_gemini_key # <<>>

\* bool(widget_gemini_key and widget_gemini_key.strip())
gemini_key_present(widget_gemini_key) == Strip(widget_gemini_key) # <<>>

\* bool(main_query_input and main_query_input.strip())
query_entered(main_query_input) == Strip(main_query_input) # <<>>

AdviceInputs(main_query_input, widget_gemini_key) ==
    [op |-> "advice", main_query_input |-> main_query_input,
     widget_gemini_key |-> widget_gemini_key]

\* llm is what initialize_llm gives: PyNone when the model cannot be built,
\* else what its invoke will do
GetAdvice(main_query_input, widget_gemini_key, widget_weather_key, llm, written, http, now) ==
    LET profile_loaded == ss.current_farmer_profile # PyNone
        farmer_profile ==
            Found([ss.current_farmer_profile.v EXCEPT !.latitude = Num(@),
                                                      !.longitude = Num(@)])
    IN /\ last' = AdviceInputs(main_query_input, widget_gemini_key)
       /\ IF ~profile_loaded
          THEN ui' = Shown("advice", "profile_error") /\ UNCHANGED <<req, qa_log>>
          ELSE IF ~query_entered(main_query_input)
          THEN ui' = Shown("advice", "query_warning") /\ UNCHANGED <<req, qa_log>>
          ELSE IF ~gemini_key_present(widget_gemini_key)
          THEN ui' = Shown("advice", "gemini_key_error") /\ UNCHANGED <<req, qa_log>>
          ELSE IF llm = PyNone
          THEN ui' = Shown("advice", "llm_init_error") /\ UNCHANGED <<req, qa_log>>
          ELSE /\ now \in Clock(qa_log)
               /\ \E order \in HistoryOrders(qa_log, farmer_profile.v.name) :
                     process_farmer_request(farmer_profile, Strip(main_query_input), llm,
                                            widget_weather_key, ss.selected_language,
                                            written, FALSE, order, http, 1, now)
               /\ Len(qa_log'.rows) <= MaxLog
               /\ ui' = Shown("advice", req'.status)
       /\ UNCHANGED <<df, disk, ss, wx, hist, writers>>

ValidateInit ==
    /\ ss = InitSession
    /\ ui = Shown("start", "none")
    /\ disk = NoFile
    /\ qa_log = NoLog
    /\ req = NoRequest
    /\ last = AdviceInputs(<<>>, <<>>)
    /\ df = <<>> /\ wx = Idle /\ hist = Idle /\ writers = Idle

ValidateNext ==
    \/ \E text \in {<<>>, <<" ">>, <<"a">>} : EditName(text)
    \/ ClickLoad
    \/ ClickNew
    \/ \E written \in BOOLEAN : SubmitForm(DefaultLanguage, <<"Red">>, DEFAULT_FARM_SIZE, written)
    \/ \E main_query_input \in {<<>>, <<" ">>, <<"q", " ">>},
          widget_gemini_key \in {<<>>, <<" ">>, <<"k">>},
          llm \in {PyNone, Returns(<<"ok">>), Raises(LlmError(<<"timeout">>, FALSE))},
          written \in BOOLEAN :
            GetAdvice(main_query_input, widget_gemini_key, <<"k">>, llm, written,
                      NetworkFailure, LastStamp(qa_log) + 1)

SpecValidate == ValidateInit /\ [][ValidateNext]_vars

(***************************************************************************)
(* One request over a log already written: the queries name none, one or   *)
(* several intents, and the farmer has no, some or more than three rows.   *)
(***************************************************************************)
QueryInputs ==
    {<<"hello">>,
     <<" ", "Weather", " ">>,
     <<"market">>,
     <<"weather", " ", "crop", " ", "recommend">>,
     <<"pest", " ", "market", " ", "price", " ", "rice">>,
     <<"pest", " ", "mausam">>,
     <<"problem", " ", "suggest", " ", "crop">>,
     <<"f", "r", "o", "g">>,
     <<"disease">>}

PromptProfiles ==
    {PyNone,
     Found([name |-> <<"a">>, language |-> DefaultLanguage, soil_type |-> DefaultSoil,
            latitude |-> Num(0), longitude |-> Num(0), farm_size_ha |-> 1]),
     Found([name |-> <<"A", " ">>, language |-> DefaultLanguage, soil_type |-> <<"Red">>,
            latitude |-> Num(5), longitude |-> Num(7), farm_size_ha |-> 1])}

\* the coordinates of a profile: numbers, a text that spells a number, a text
\* that spells none, None
CoordinateProfiles ==
    {Found([name |-> <<"a">>, language |-> DefaultLanguage, soil_type |-> DefaultSoil,
            latitude |-> lat, longitude |-> lon, farm_size_ha |-> 1]) :
        lat \in {Num(0), Num(5), Str(<<"1">>), Str(<<"x">>), PyNone},
        lon \in {Num(0), Num(7), Str(<<"x">>)}}

PromptLogs ==
    {NoLog} \cup
    {log \in WrittenLogs :
        \A i \in DOMAIN log.rows :
            log.rows[i].farmer_name \in {<<"a">>, <<"b">>} /\ log.rows[i].timestamp = i}

PromptHttp ==
    {HttpOk([k |-> "list", v |-> <<PlainSample(2), PlainSample(1)>>], Str(<<"City">>)),
     HttpError(401), NetworkFailure}

PromptInit ==
    /\ qa_log \in PromptLogs
    /\ req = NoRequest
    /\ df = <<>> /\ disk = NoFile /\ last = Idle /\ ss = Idle /\ ui = Idle
    /\ wx = Idle /\ hist = Idle /\ writers = Idle

PromptRequest(farmer_profile, text_query, llm, weather_api_key, output_language, written, opened, http, today, now) ==
    /\ req.status = "none"
    /\ \E order \in HistoryOrders(qa_log, IF farmer_profile.k = "dict"
                                           THEN farmer_profile.v.name ELSE <<>>) :
            process_farmer_request(farmer_profile, text_query, llm, weather_api_key,
                                   output_language, written, opened, order, http, today,
                                   now)
    /\ UNCHANGED <<df, disk, last, ss, ui, wx, hist, writers>>

\* requests that differ in the query, the log and the language
PromptAsked ==
    \E farmer_profile \in PromptProfiles, text_query \in QueryInputs,
       llm \in {PyNone, Returns(<<"ok">>)}, weather_api_key \in {<<>>, <<"k">>},
       output_language \in LanguageOptions, written \in BOOLEAN, http \in PromptHttp :
        \E now \in Clock(qa_log) :
            PromptRequest(farmer_profile, text_query, llm, weather_api_key,
                          output_language, written, FALSE, http, 1, now)

\* requests that differ in the coordinates of the profile
PromptLocated ==
    \E farmer_profile \in CoordinateProfiles,
       text_query \in {<<"hello">>, <<" ", "Weather", " ">>},
       weather_api_key \in {<<>>, <<"k">>}, http \in PromptHttp :
        PromptRequest(farmer_profile, text_query, Returns(<<"ok">>), weather_api_key,
                      DefaultLanguage, TRUE, FALSE, http, 1, LastStamp(qa_log) + 1)

PromptNext == PromptAsked \/ PromptLocated

SpecPrompt == PromptInit /\ [][PromptNext]_vars

\* C1: the generator's text is an error exactly when it is empty or starts
\* with Error:, Sorry, Warning:, Could not or Internal error; an error gives
\* status error and no log_qa call, anything else gives status success and
\* exactly one log_qa call.
C1_ErrorClassification ==
    req.generated =>
        LET t == req.final_response
            IsErr ==
                \/ t = <<>>
                \/ Len(t) >= 2 /\ SubSeq(t, 1, 2) \in
                      {<<"Error", ":">>, <<"Sorry", ",">>, <<"Warning", ":">>}
                \/ Len(t) >= 3 /\ SubSeq(t, 1, 3) \in
                      {<<"Could", " ", "not">>, <<"Internal", " ", "error">>}
        IN IF IsErr
           THEN req.status = "error" /\ req.log_calls = 0
           ELSE req.status = "success" /\ req.log_calls = 1

\* an error text that follows a logged answer
C1_Witness ==
    /\ req.generated
    /\ req.final_response = <<"Could", " ", "not">>
    /\ req.status = "error"
    /\ Len(qa_log.rows) = 1

\* C2 as stated: a text beginning with Error: is an error and is not logged;
\* every other non-empty text is logged exactly once.
C2_ErrorPrefixOnly ==
    req.generated =>
        LET t == req.final_response
            StartsError == Len(t) >= 2 /\ SubSeq(t, 1, 2) = <<"Error", ":">>
        IN /\ StartsError => req.status = "error" /\ req.log_calls = 0
           /\ (t # <<>> /\ ~StartsError) => req.log_calls = 1

\* C2: a text beginning with Error: is an error and is not logged; a non-empty
\* text that begins with none of the five prefixes is handed to log_qa exactly
\* once, and its row is the last of the log when the write succeeds.
C2_SentinelPrefixLog ==
    req.generated =>
        LET t == req.final_response
            Starts(prefix) == Len(t) >= Len(prefix) /\ SubSeq(t, 1, Len(prefix)) = prefix
        IN /\ Starts(<<"Error", ":">>) => req.status = "error" /\ req.log_calls = 0
           /\ (/\ t # <<>>
               /\ ~Starts(<<"Error", ":">>) /\ ~Starts(<<"Sorry", ",">>)
               /\ ~Starts(<<"Warning", ":">>) /\ ~Starts(<<"Could", " ", "not">>)
               /\ ~Starts(<<"Internal", " ", "error">>))
              => /\ req.log_calls = 1
                 /\ req.written =>
                       /\ qa_log.rows # <<>>
                       /\ qa_log.rows[Len(qa_log.rows)].response = t

\* a text that holds Error: but not at its start, logged
C2_Witness ==
    /\ req.generated
    /\ req.final_response = <<"ok", " ", "Error", ":">>
    /\ req.log_calls = 1 /\ req.written
    /\ qa_log.rows[Len(qa_log.rows)].response = <<"ok", " ", "Error", ":">>

(***************************************************************************)
(* Profile Store properties.                                               *)
(***************************************************************************)
Key(name) == Lower(Strip(name))

RowsOf(rows, k) == {i \in DOMAIN rows : Key(rows[i].name) = k}

IsBlank(value) == value.k # "str" \/ \A i \in DOMAIN value.v : value.v[i] = " "

NoDupNames(rows) ==
    \A i, j \in DOMAIN rows : Key(rows[i].name) = Key(rows[j].name) => i = j

\* C4: no two rows of the in-memory collection or of the persisted table have
\* names that are equal after trimming and lower-casing.
C4_NamesUnique == NoDupNames(df) /\ NoDupNames(disk.rows)

\* C5: every non-empty profile name in the persisted table before a save is
\* still in the persisted table (case-insensitively) after it.
C5_NeverDeleted ==
    [][(last'.op = "save" /\ last'.written) =>
          \A i \in DOMAIN disk.rows :
              disk.rows[i].name # <<>> => RowsOf(disk'.rows, Key(disk.rows[i].name)) # {}]_vars

\* C6: upsert with one name and then with a name that differs only in letter
\* case or surrounding whitespace, and a different soil_type, leaves exactly
\* one row for that name, holding the second call's soil_type.
C6_SecondUpsertWins ==
    (/\ last.op = "upsert"
     /\ ~IsBlank(last.prev.name) /\ ~IsBlank(last.data.name)
     /\ Key(last.prev.name.v) = Key(last.data.name.v)
     /\ last.prev.soil_type # last.data.soil_type)
    => LET found == RowsOf(df, Key(last.data.name.v))
           second == last.data.soil_type
       IN /\ Cardinality(found) = 1
          /\ \A i \in found :
                 df[i].soil_type = (IF IsBlank(second) THEN DefaultSoil
                                    ELSE Strip(second.v))

C6_Witness ==
    /\ last.op = "upsert"
    /\ last.prev.name = Str(<<"A">>) /\ last.prev.soil_type = Str(<<"Red">>)
    /\ last.data.name = Str(<<"a">>)
    /\ Len(df) = 1 /\ df[1].name = <<"a">> /\ df[1].soil_type = DefaultSoil

\* C7: upsert with a non-empty name changes exactly one row: a matching row
\* is replaced in all six columns by the normalized new data (a field not
\* supplied takes its default) with the row count and every other row
\* unchanged; with no matching row exactly one row is appended and every
\* existing row is unchanged.
C7_UpsertChangesOneRow ==
    [][(last'.op = "upsert" /\ ~IsBlank(last'.data.name)) =>
          LET d == last'.data
              found == RowsOf(df, Key(d.name.v))
              at == IF found # {}
                    THEN CHOOSE i \in found : \A j \in found : i <= j
                    ELSE Len(df) + 1
          IN /\ Len(df') = (IF found # {} THEN Len(df) ELSE Len(df) + 1)
             /\ \A i \in DOMAIN df : i # at => df'[i] = df[i]
             /\ df'[at] = new_data(d)
             /\ DOMAIN df'[at] = CSV_COLUMNS
             /\ d.language.k = "none" => df'[at].language = DefaultLanguage
             /\ d.soil_type.k = "none" => df'[at].soil_type = DefaultSoil
             /\ d.latitude.k = "none" => df'[at].latitude = PROFILE_DEFAULT_LAT
             /\ d.longitude.k = "none" => df'[at].longitude = PROFILE_DEFAULT_LON
             /\ d.farm_size_ha.k = "none" => df'[at].farm_size_ha = DEFAULT_FARM_SIZE]_vars

C7_Witness ==
    /\ last.op = "upsert" /\ ~IsBlank(last.data.name)
    /\ Len(df) = 2
    /\ df[1].name = <<"A">> /\ df[1].soil_type = <<"Red">>
    /\ last.data.name.v = <<"A">>

\* C8: upsert, save, then load and find by that name returns the language,
\* soil_type, farm_size_ha, latitude and longitude that upsert stored.
C8_RoundTrip ==
    (last.trip = 3 /\ ~IsBlank(last.data.name)) =>
        LET got == find_farmer(df, last.data.name.v)
            put == new_data(last.data)
        IN /\ got.k = "dict"
           /\ got.v.language = put.language
           /\ got.v.soil_type = put.soil_type
           /\ got.v.farm_size_ha = put.farm_size_ha
           /\ got.v.latitude = put.latitude
           /\ got.v.longitude = put.longitude

\* the supplied farm size as a number, when it is one
SuppliedSize(value) ==
    IF value.k = "num" THEN value.v
    ELSE IF value.k = "str" /\ value.v = <<"1">> THEN 1
    ELSE 0

\* C9: upsert stores farm_size_ha = 1.0 when the supplied value is zero,
\* negative, missing or not numeric, and the supplied value when it is
\* strictly positive; the stored farm_size_ha is always strictly positive.
C9_FarmSizeFloor ==
    (last.op = "upsert" /\ ~IsBlank(last.data.name)) =>
        LET found == RowsOf(df, Key(last.data.name.v))
            stored == df[CHOOSE i \in found : \A j \in found : i <= j].farm_size_ha
            given == SuppliedSize(last.data.farm_size_ha)
        IN /\ found # {}
           /\ stored > 0
           /\ stored = (IF given > 0 THEN given ELSE 1)

C9_Witness ==
    /\ last.op = "upsert" /\ ~IsBlank(last.data.name)
    /\ last.data.farm_size_ha \in {Num(-5), Num(0)}
    /\ \E i \in RowsOf(df, Key(last.data.name.v)) : df[i].farm_size_ha = 1

\* C10: upsert with a missing, empty or whitespace-only name returns the
\* input collection with no row added, removed or changed.
C10_BlankNameNoOp ==
    [][(last'.op = "upsert" /\ IsBlank(last'.data.name)) => df' = df]_vars

C10_Witness ==
    /\ last.op = "upsert" /\ IsBlank(last.data.name)
    /\ last.data.name = Str(<<" ">>)
    /\ df # <<>>

\* C11: after every successful save the persisted table is sorted ascending
\* by lower-cased name and holds no row whose name is empty or blank,
\* whatever collection was passed to save.
C11_SavedSortedNoBlank ==
    (last.op = "save" /\ last.written) =>
        /\ \A i, j \in DOMAIN disk.rows :
               i < j => ~StrLess(Lower(disk.rows[j].name), Lower(disk.rows[i].name))
        /\ \A i \in DOMAIN disk.rows :
               \E k \in DOMAIN disk.rows[i].name : disk.rows[i].name[k] # " "

(***************************************************************************)
(* Weather summarizer properties.                                          *)
(***************************************************************************)
\* C12: with latitude 0.0 and longitude 0.0 the result is the location not
\* set error for every key, the empty key too; with other coordinates and an
\* empty key it is the missing key error; neither makes an HTTP request.
C12_ShortCircuits ==
    wx.called =>
        /\ (wx.latitude = Num(0) /\ wx.longitude = Num(0)) =>
              /\ wx.result = [status |-> "error",
                              message |-> "Location not set in profile. Cannot fetch weather."]
              /\ wx.http_calls = 0
        /\ (~(wx.latitude = Num(0) /\ wx.longitude = Num(0)) /\ wx.api_key = <<>>) =>
              /\ wx.result = [status |-> "error",
                              message |-> "Weather API Key is missing in the configuration."]
              /\ wx.http_calls = 0

\* location not set and no key at once
C12_Witness ==
    /\ wx.called /\ wx.latitude = Num(0) /\ wx.longitude = Num(0) /\ wx.api_key = <<>>
    /\ wx.result.message = "Location not set in profile. Cannot fetch weather."
    /\ wx.http_calls = 0

\* C13: a latitude or longitude that is not coercible to a float gives the
\* invalid coordinates error and no HTTP request, whatever the key.
C13_InvalidCoordinates ==
    (wx.called /\ (wx.latitude.k # "num" \/ wx.longitude.k # "num")) =>
        /\ wx.result.status = "error"
        /\ wx.result.message = "Invalid coordinates."
        /\ wx.http_calls = 0

WellFormed(item) ==
    /\ item.dt.k = "num" /\ item.temp.k = "num"
    /\ item.temp_min.k = "num" /\ item.temp_max.k = "num"
    /\ item.description.k = "str"
    /\ item.rain.k \in {"num", "none"} /\ item.wind.k \in {"num", "none"}

RECURSIVE SumOver(_, _)
SumOver(f, S) ==
    IF S = {} THEN 0
    ELSE LET i == CHOOSE j \in S : TRUE IN f[i] + SumOver(f, S \ {i})

\* C14: for a list of well-formed samples, the bucket of each calendar day
\* holds the least temp_min, the greatest temp_max, the set of capitalized
\* descriptions and the sum of the 3-hour rain (absent counted as 0) of that
\* day's samples, and the days are those of the samples.
C14_Buckets ==
    (/\ wx.called /\ wx.http_calls = 1 /\ wx.http.k = "ok" /\ wx.http.list.k = "list"
     /\ wx.latitude.k = "num" /\ wx.longitude.k = "num"
     /\ \A i \in DOMAIN wx.http.list.v : WellFormed(wx.http.list.v[i]))
    => LET list == wx.http.list.v
           day(i) == list[i].dt.v \div 86400
           of(d) == {i \in DOMAIN list : day(i) = d}
           rain == [i \in DOMAIN list |->
                      IF list[i].rain.k = "none" THEN 0 ELSE list[i].rain.v]
           Cap(text) == [k \in DOMAIN text |->
                           IF k = 1
                           THEN (CASE text[k] = "a" -> "A" [] text[k] = "b" -> "B"
                                   [] OTHER -> text[k])
                           ELSE (CASE text[k] = "A" -> "a" [] text[k] = "B" -> "b"
                                   [] OTHER -> text[k])]
       IN /\ DOMAIN wx.days = {day(i) : i \in DOMAIN list}
          /\ \A d \in DOMAIN wx.days :
                /\ \E i \in of(d) : wx.days[d].min_temp = list[i].temp_min.v
                /\ \A i \in of(d) : wx.days[d].min_temp <= list[i].temp_min.v
                /\ \E i \in of(d) : wx.days[d].max_temp = list[i].temp_max.v
                /\ \A i \in of(d) : wx.days[d].max_temp >= list[i].temp_max.v
                /\ wx.days[d].conditions = {Cap(list[i].description.v) : i \in of(d)}
                /\ wx.days[d].total_rain = SumOver(rain, of(d))

\* one day with two samples whose descriptions differ in letter case only
C14_Witness ==
    /\ wx.called /\ wx.http_calls = 1 /\ wx.http.k = "ok" /\ wx.http.list.k = "list"
    /\ Len(wx.http.list.v) = 2
    /\ \A i \in DOMAIN wx.http.list.v : WellFormed(wx.http.list.v[i])
    /\ wx.http.list.v[1].description.v = <<"a", "b">>
    /\ wx.http.list.v[2].description.v = <<"A", "B">>
    /\ 1 \in DOMAIN wx.days
    /\ wx.days[1].conditions = {<<"A", "b">>}

\* C15: a success lists one line per bucket in ascending date order for the
\* first 5 dates at most, and it has at least one line: when no line is made
\* the result is an error.
C15_SummaryOrder ==
    (wx.called /\ wx.http_calls = 1 /\ wx.http.k = "ok") =>
        /\ wx.result.status = "success" =>
              LET lines == wx.result.daily_summary
                  dates == DOMAIN wx.days
              IN /\ lines # <<>>
                 /\ Len(lines) = (IF Cardinality(dates) < 5 THEN Cardinality(dates) ELSE 5)
                 /\ \A i, j \in DOMAIN lines : i < j => lines[i].date < lines[j].date
                 /\ \A i \in DOMAIN lines :
                       /\ lines[i].date \in dates
                       /\ \A d \in dates :
                             d < lines[i].date => \E j \in DOMAIN lines : lines[j].date = d
        /\ (wx.http.list.k = "list"
            /\ \A i \in DOMAIN wx.http.list.v : ~WellFormed(wx.http.list.v[i]))
           => wx.result.status = "error"

\* seven days answered out of order, five shown
C15_Witness ==
    /\ wx.called /\ wx.http_calls = 1 /\ wx.http.k = "ok"
    /\ wx.result.status = "success"
    /\ Cardinality(DOMAIN wx.days) = 7
    /\ Len(wx.result.daily_summary) = 5
    /\ wx.result.daily_summary[1].date = 1 /\ wx.result.daily_summary[5].date = 5
    /\ wx.http.list.v[1].dt.v > wx.http.list.v[3].dt.v

\* C16: every result has status success or error; HTTP 401 gives the invalid
\* key message, 404 the no data message, 429 the rate limit message, another
\* HTTP error status the service error with the code, a network failure the
\* connectivity error, and any other exception the generic processing error.
C16_FailureTaxonomy ==
    wx.called =>
        /\ wx.result.status \in {"success", "error"}
        /\ wx.http_calls = 1 =>
            /\ (wx.http.k = "http" /\ wx.http.status_code = 401) =>
                  wx.result.message = "Weather API Key invalid or unauthorized."
            /\ (wx.http.k = "http" /\ wx.http.status_code = 404) =>
                  wx.result.message = "Weather data not found for location"
            /\ (wx.http.k = "http" /\ wx.http.status_code = 429) =>
                  wx.result.message = "Weather API rate limit exceeded."
            /\ (wx.http.k = "http" /\ wx.http.status_code \notin {401, 404, 429}) =>
                  /\ wx.result.message = "Weather service error"
                  /\ wx.result.code = wx.http.status_code
            /\ wx.http.k = "network" =>
                  wx.result.message = "Network error connecting to weather service."
            /\ wx.http.k = "json" =>
                  wx.result.message =
                      "An unexpected error occurred while processing weather data"

(***************************************************************************)
(* Claims about the prompt and the history.                                *)
(***************************************************************************)
IntentOrder == <<"crop", "market", "weather", "health">>

KeywordsOf(intent) ==
    CASE intent = "crop" -> CropKeywords
      [] intent = "market" -> MarketKeywords
      [] intent = "weather" -> WeatherKeywords
      [] intent = "health" -> HealthKeywords

DataKinds(intent) ==
    CASE intent = "crop" -> {"crop_suggestion_data"}
      [] intent = "market" -> {"market_price_data"}
      [] intent = "weather" -> {"weather_data_header", "daily_summary", "weather_data_error"}
      [] intent = "health" -> {"plant_health_data"}
      [] OTHER -> {"general_query_data"}

AllDataKinds ==
    UNION {DataKinds(intent) : intent \in {"crop", "market", "weather", "health", "general"}}

\* C17: a request with a valid profile selects exactly one intent: the first
\* of crop recommendation, market price, weather and plant health that has a
\* keyword occurring in the lower-cased trimmed query, and general exactly
\* when no keyword occurs; the prompt holds exactly one intent marker, the
\* marker of that intent, followed by a data block of that intent alone.
C17_OneIntent ==
    req.intent # "none" =>
        LET query_lower == Lower(Strip(req.text_query))
            hits == {n \in DOMAIN IntentOrder :
                        \E keyword \in KeywordsOf(IntentOrder[n]) :
                            Contains(query_lower, keyword)}
            expected == IF hits = {} THEN "general"
                        ELSE IntentOrder[CHOOSE n \in hits : \A m \in hits : n <= m]
            p == req.internal_prompt
            markers == {i \in DOMAIN p : p[i].k = "intent"}
        IN /\ req.intent = expected
           /\ Cardinality(markers) = 1
           /\ \A i \in markers :
                 /\ p[i].intent = expected
                 /\ i < Len(p)
                 /\ \A j \in DOMAIN p :
                       IF j > i THEN p[j].k \in DataKinds(expected)
                       ELSE p[j].k \notin AllDataKinds

\* a query with a plant-health keyword before a market keyword: market price
C17_Witness ==
    /\ req.text_query = <<"pest", " ", "market", " ", "price", " ", "rice">>
    /\ req.intent = "market"
    /\ req.internal_prompt[Len(req.internal_prompt)] =
          [k |-> "market_price_data", crop |-> "Rice"]

\* C18: the prompt of a request with a valid profile is, in this order, the
\* farmer context line, the history block exactly when the history read from
\* the log is neither empty nor the history_not_found text, the current
\* interaction marker, the line of the trimmed query, and last the intent
\* marker with its data block.
C18_PromptOrder ==
    [][req'.intent # "none" =>
        LET p == req'.internal_prompt
            histories == {get_recent_qa_history(qa_log, req'.farmer_name, 3, order) :
                            order \in HistoryOrders(qa_log, req'.farmer_name)}
            c == IF p[2].k = "history" THEN 3 ELSE 2
        IN /\ Len(p) >= c + 3
           /\ p[1].k = "farmer_context_data"
           /\ p[1].name = req'.farmer_name
           /\ IF p[2].k = "history"
              THEN p[2].lines \in histories \ {<<>>, history_not_found}
              ELSE histories \subseteq {<<>>, history_not_found}
           /\ \A i \in DOMAIN p : p[i].k = "history" => i = 2
           /\ p[c].k = "current_interaction"
           /\ p[c + 1].k = "current_query"
           /\ p[c + 1].query = Strip(req'.text_query)
           /\ p[c + 2].k = "intent"
           /\ \A i \in (c + 3)..Len(p) : p[i].k \in AllDataKinds]_vars

\* a prompt with a history block of two rows and a weather block of two days
C18_Witness ==
    /\ req.intent = "weather"
    /\ Len(req.internal_prompt) = 8
    /\ req.internal_prompt[2].k = "history"
    /\ Len(req.internal_prompt[2].lines) = 3
    /\ req.internal_prompt[4].query = <<"Weather">>
    /\ req.internal_prompt[8].k = "daily_summary"

\* C19: when the log holds more rows of a farmer than the limit, with
\* strictly increasing timestamps and a row of another farmer between them,
\* the history is the header followed by exactly the limit most recent rows
\* of that farmer, newest first, the farmer matched on the trimmed name
\* without regard to case.
C19_RecentEntries ==
    hist.called =>
        LET name == Lower(Strip(hist.farmer_name))
            rows == qa_log.rows
            own == {i \in DOMAIN rows : Lower(Strip(rows[i].farmer_name)) = name}
            increasing == \A i, j \in DOMAIN rows :
                              i < j => rows[i].timestamp < rows[j].timestamp
            interleaved == \E i \in DOMAIN rows \ own :
                              \E j, k \in own : j < i /\ i < k
            nth(n) == CHOOSE i \in own : Cardinality({j \in own : j > i}) = n - 1
        IN (/\ name # <<>>
            /\ qa_log.exists /\ qa_log.headers = 1 /\ ~qa_log.malformed
            /\ increasing /\ interleaved
            /\ Cardinality(own) > hist.num_entries)
           => /\ Len(hist.result) = hist.num_entries + 1
              /\ hist.result[1] = history_header
              /\ \A n \in 1..hist.num_entries :
                    /\ hist.result[n + 1].k = "history_entry"
                    /\ hist.result[n + 1].response = rows[nth(n)].response
                    /\ hist.result[n + 1].query = rows[nth(n)].query
                    /\ hist.result[n + 1].lang = rows[nth(n)].language

\* C20: the history of a farmer is the history_not_found text, and not the
\* empty text, when the log file is absent, empty or unreadable or holds no
\* row of that farmer.
C20_NoHistorySentinel ==
    (hist.called /\ Strip(hist.farmer_name) # <<>>) =>
        LET name == Lower(Strip(hist.farmer_name))
            rows == qa_log.rows
            own == {i \in DOMAIN rows : Lower(Strip(rows[i].farmer_name)) = name}
        IN (~qa_log.exists \/ rows = <<>> \/ qa_log.malformed \/ own = {})
           => hist.result = history_not_found

(***************************************************************************)
(* Claims about the log, the generator, the alerts and the session.        *)
(***************************************************************************)
\* C21: the log is append-only.  A call of log_qa whose write succeeds adds
\* its row after the rows already there, a call whose write fails leaves the
\* rows as they were, and a log that holds rows holds its header exactly
\* once.
C21_AppendOnly ==
    [][/\ last'.written => qa_log'.rows = Append(qa_log.rows, last'.entry)
       /\ ~last'.written => qa_log'.rows = qa_log.rows
       /\ qa_log'.rows # <<>> => qa_log'.headers = 1]_vars


\* the class of an exception of the endpoint, by the first test that matches:
\* authentication or permission, then quota, then safety block, then generic
ErrorClass(e) ==
    LET words == {LowerSym(e.text[i]) : i \in DOMAIN e.text}
    IN IF words \cap {"api key", "permission", "denied", "authenticate"} # {}
       THEN "authentication"
       ELSE IF "quota" \in words THEN "quota"
       ELSE IF e.block_reason \/ ({"candidate", "finish reason", "safety"} \subseteq words)
       THEN "safety"
       ELSE "generic"

\* C22: an exception of the endpoint call becomes a returned text that begins
\* with a sentinel prefix, chosen by the first match among authentication or
\* permission, quota, safety block and generic; the request then has status
\* error and hands nothing to log_qa.
C22_EndpointFailure ==
    (req.generated /\ req.llm # PyNone /\ req.llm.k = "raise") =>
        LET t == req.final_response
            class == ErrorClass(req.llm.v)
        IN /\ class = "authentication" => t = <<"Error", ":", " ", "authenticate">>
           /\ class = "quota" => t = <<"Error", ":", " ", "quota">>
           /\ class = "safety" => Len(t) >= 2 /\ SubSeq(t, 1, 2) = <<"Warning", ":">>
           /\ class = "generic" => Len(t) >= 2 /\ SubSeq(t, 1, 2) = <<"Sorry", ",">>
           /\ req.status = "error"
           /\ req.log_calls = 0

\* an exception that names a quota and a denial, after a logged answer
C22_Witness ==
    /\ req.generated /\ req.llm # PyNone /\ req.llm.k = "raise"
    /\ req.llm.v = LlmError(<<"quota", " ", "denied">>, TRUE)
    /\ req.final_response = <<"Error", ":", " ", "authenticate">>
    /\ req.status = "error"
    /\ Len(qa_log.rows) = 1


\* C23: a malformed sample is skipped and never fatal.  When the list holds
\* a well-formed sample, a sample that lacks a field or carries a text where
\* a number is due does not make the result an error and adds nothing to a
\* bucket: the days are those of the well-formed samples.
C23_MalformedSkipped ==
    (/\ wx.called /\ wx.http_calls = 1 /\ wx.http.k = "ok" /\ wx.http.list.k = "list"
     /\ wx.latitude.k = "num" /\ wx.longitude.k = "num"
     /\ \E i \in DOMAIN wx.http.list.v : WellFormed(wx.http.list.v[i]))
    => LET list == wx.http.list.v
       IN /\ wx.result.status = "success"
          /\ DOMAIN wx.days =
                {list[i].dt.v \div 86400 : i \in {j \in DOMAIN list : WellFormed(list[j])}}


\* C24: for a list of well-formed samples, a day has a heavy rain alert
\* exactly when one of its samples has a 3-hour rain above 5, a high temp
\* alert exactly when one has a temp above 38, a low temp alert exactly when
\* one has a temp below 5, and a strong wind alert exactly when one has a
\* wind speed above 15; a value equal to its threshold raises no alert.
C24_AlertThresholds ==
    (/\ wx.called /\ wx.http_calls = 1 /\ wx.http.k = "ok" /\ wx.http.list.k = "list"
     /\ wx.latitude.k = "num" /\ wx.longitude.k = "num"
     /\ \A i \in DOMAIN wx.http.list.v : WellFormed(wx.http.list.v[i]))
    => LET list == wx.http.list.v
           of(d) == {i \in DOMAIN list : list[i].dt.v \div 86400 = d}
           rain(i) == IF list[i].rain.k = "none" THEN 0 ELSE list[i].rain.v
           wind(i) == IF list[i].wind.k = "none" THEN 0 ELSE list[i].wind.v
           has(d, kind) == \E a \in wx.days[d].alerts : a.kind = kind
       IN \A d \in DOMAIN wx.days :
            /\ has(d, "Heavy rain") <=> \E i \in of(d) : rain(i) > 500
            /\ has(d, "High temp") <=> \E i \in of(d) : list[i].temp.v > 3800
            /\ has(d, "Low temp") <=> \E i \in of(d) : list[i].temp.v < 500
            /\ has(d, "Strong wind") <=> \E i \in of(d) : wind(i) > 1500
            /\ \A a \in wx.days[d].alerts :
                  a.kind \in {"Heavy rain", "High temp", "Low temp", "Strong wind"}

\* a day whose samples sit on the four thresholds and has no alert, next to a
\* day that has alerts
C24_Witness ==
    /\ wx.called /\ wx.http_calls = 1 /\ wx.http.k = "ok" /\ wx.http.list.k = "list"
    /\ Len(wx.http.list.v) = 2
    /\ \A i \in DOMAIN wx.http.list.v : WellFormed(wx.http.list.v[i])
    /\ wx.http.list.v[1].temp.v = 3800 /\ wx.http.list.v[1].rain = Num(500)
    /\ wx.http.list.v[1].wind = Num(1500)
    /\ 3 \in DOMAIN wx.days /\ wx.days[3].alerts = {}
    /\ 1 \in DOMAIN wx.days
    /\ {a.kind : a \in wx.days[1].alerts} = {"High temp", "Strong wind"}

\* C25: every alert of a day carries its value formatted to one decimal
\* place, and the alerts of a day form a set.
C25_AlertOneDecimal ==
    (wx.called /\ wx.http_calls = 1) =>
        \A d \in DOMAIN wx.days : \A a \in wx.days[d].alerts : a.value.decimals = 1


\* C29: the two uses of the (0,0) sentinel agree.  The farmer context line
\* says that the location is not set exactly when the coordinates of the
\* profile are both 0 after float(), a profile with a coordinate that float()
\* rejects counting as not set; exactly then a weather query gets the
\* location not set error without a request to the weather service.
\* Otherwise the line carries the coordinates with two decimals and the same
\* coordinates are given to get_weather_forecast.
C29_SentinelAgreement ==
    (req.status # "none" /\ req.internal_prompt # <<>>) =>
        LET lat == req.farmer_profile.v.latitude
            lon == req.farmer_profile.v.longitude
            coerced == FloatOk(lat) /\ FloatOk(lon)
            unset == ~coerced \/ (FloatOf(lat) = 0 /\ FloatOf(lon) = 0)
            shown == req.internal_prompt[1].location_description
            not_set == WxError("Location not set in profile. Cannot fetch weather.")
        IN /\ req.internal_prompt[1].k = "farmer_context_data"
           /\ unset <=> shown = [k |-> "location_not_set_description"]
           /\ ~unset => shown = [k |-> "location_set_description",
                                 lat |-> [decimals |-> 2, n |-> 100 * FloatOf(lat)],
                                 lon |-> [decimals |-> 2, n |-> 100 * FloatOf(lon)]]
           /\ req.intent = "weather" <=> req.weather.called
           /\ req.weather.called =>
                /\ unset <=> req.weather.result = not_set
                /\ unset => req.weather.http_calls = 0
                /\ ~unset => /\ req.weather.latitude = Num(FloatOf(lat))
                             /\ req.weather.longitude = Num(FloatOf(lon))

\* a weather query for a profile whose latitude is no number and whose
\* longitude is 7
C29_Witness ==
    /\ req.status # "none" /\ req.internal_prompt # <<>>
    /\ req.farmer_profile.v.latitude = Str(<<"x">>)
    /\ req.farmer_profile.v.longitude = Num(7)
    /\ req.intent = "weather"
    /\ req.internal_prompt[1].location_description.k = "location_not_set_description"
    /\ req.weather.called /\ req.weather.http_calls = 0
    /\ req.weather.result.status = "error"


\* C30: append and recent round-trip.  When the log holds a row written for
\* the farmer of a request, under any letter case of the name, the
\* internal_prompt of the request has a history block and the first entry of
\* the block is the query and the response of the farmer's latest row.
C30_RoundTrip ==
    [][LET rows == qa_log.rows
           mine == {i \in DOMAIN rows :
                      Lower(rows[i].farmer_name) = Lower(req'.farmer_name)}
           latest == CHOOSE i \in mine : \A j \in mine : j <= i
       IN (req'.status # "none" /\ req'.internal_prompt # <<>> /\ mine # {}) =>
            /\ Len(req'.internal_prompt) >= 2
            /\ req'.internal_prompt[2].k = "history"
            /\ Len(req'.internal_prompt[2].lines) >= 2
            /\ req'.internal_prompt[2].lines[2].query = Shorten(rows[latest].query, QUERY_SHORT)
            /\ req'.internal_prompt[2].lines[2].response =
                  Shorten(rows[latest].response, RESPONSE_SHORT)]_vars


\* C27: when the write of the table fails during a new-profile submit, the
\* session does not make the unsaved profile its active profile and does not
\* report it as saved: after a submit that reports the profile as saved, the
\* active profile is a row of the persisted table.
C27_SubmitPersisted ==
    (ui.event = "submit" /\ ui.notice = "profile_saved_success") =>
        /\ ss.current_farmer_profile.k = "dict"
        /\ disk.exists
        /\ \E i \in DOMAIN disk.rows :
              Lower(Strip(disk.rows[i].name)) =
                 Lower(Strip(ss.current_farmer_profile.v.name))


\* C26: an input-validation error changes no state.  A Get Advice click with
\* no loaded profile, a blank query or a blank model key makes no model call,
\* no weather call and no log append and leaves the session and the profile
\* table as they were; a Load Profile or New Profile click with a blank name
\* leaves the active profile, the form flag and the profile table as they
\* were.
C26_ValidationFrame ==
    [][LET blank(text) == \A i \in DOMAIN text : text[i] = " "
       IN /\ (/\ ui'.event = "advice"
              /\ \/ ss.current_farmer_profile = PyNone
                 \/ blank(last'.main_query_input)
                 \/ blank(last'.widget_gemini_key))
             => /\ req' = req /\ qa_log' = qa_log
                /\ ss' = ss /\ disk' = disk
                /\ ui'.notice \in {"profile_error", "query_warning", "gemini_key_error"}
          /\ (ui'.event \in {"load", "new"} /\ blank(ss.widget_farmer_name_input))
             => /\ ss'.current_farmer_profile = ss.current_farmer_profile
                /\ ss'.show_new_profile_form = ss.show_new_profile_form
                /\ disk' = disk
                /\ ui'.notice = "name_missing_error"]_vars

\* a click with a key of one space, for a loaded profile with an answer in
\* the log
C26_Witness ==
    /\ ui = Shown("advice", "gemini_key_error")
    /\ last.widget_gemini_key = <<" ">> /\ last.main_query_input = <<"q", " ">>
    /\ ss.current_farmer_profile # PyNone
    /\ req.status = "success"
    /\ Len(qa_log.rows) = 1


\* C28: two sessions that each load, upsert and save race with last write
\* wins: once both have saved, the file holds exactly the table written by
\* the session whose write came last, and never a mix of the two tables.
C28_LastWriteWins ==
    (\A w \in Writers : writers[w].pc = "done") => disk.rows = last.rows

====
